---- MODULE Spec2Model ----
(***************************************************************************)
(* A model of the NxtFireGuard traffic sensor: the evaluator pipeline       *)
(* (ingest -> whitelist -> reputation lookup -> alert / dedup / recommend), *)
(* the retry queue, the reputation store facade with its LRU and decay,     *)
(* and the update dispatch that mutates them.                               *)
(*                                                                         *)
(* Time is kept relative: a queued item stores the seconds left until its   *)
(* NextRetry, a cache entry the seconds of validity left, a store row the   *)
(* age of its updated_at in days.                                           *)
(***************************************************************************)
EXTENDS Integers, Sequences, FiniteSets, TLC

\* ------------------------------------------------------------------ bounds

\* Evaluation goroutines alive at once.
MaxEvals == 4
\* (src, dst) pairs the ingest adapter hands over in one run.
MaxIngest == 2
\* Updates the dispatch workers process in one run.
MaxUpdates == 2
\* Items ever added to the retry queue in one run.
MaxItems == 2
\* Capacity of the recommendation LRU (RECOMMENDATIONS_CACHE_SIZE).
RecCacheSize == 1
\* Calls of sqlite.Lookup in progress at once, where they are taken in steps.
MaxLookups == 2
\* Whole days that pass in one run.
MaxDays == 1
\* Updates the read loop takes off the websocket in one run.
MaxMessages == 3
\* Calls of SyncSensorConfig in one run.
MaxSyncs == 2
\* Decisions in one list handed to generateCacheKey.
MaxDecisions == 3
\* Calls of generateCacheKey on one list of decisions.
MaxKeyCalls == 2
\* Websocket connections alive or referenced at once.
MaxConns == 3
\* Connections the network drops in one run.
MaxLosses == 1
\* Frames the read loop reads off the websocket in one run of the ingress.
MaxFrames == 2
\* Whitelist replaces in one run.
MaxReplaces == 2
\* Keys in a dedup cache handed to the purge.
MaxKeys == 2
\* Purges of one cache.
MaxPurges == 2
\* Calls of the store followed through their transactions.
MaxStoreCalls == 3

\* ------------------------------------------------------- program constants

maxRetries == 3
initBackoff == 1
maxAttempts == 10
InitialRetrySeconds == 5
MaxBackoffSeconds == 300
cacheTTL == 300
minDecayPpm == 300000
decayHalfLifeDays == 3
MaxDurationDays == 106751
numWorkers == 4
updateChanCap == 100
initialBackoff == 1
maxBackoff == 300
backoffMultiplier == 2
ZeroTimeAgeDays == 739000

StatusOK == 200
StatusTooManyRequests == 429
StatusServerError == 500
StatusNotFound == 404
\* No response at all: http.Client.Do returned an error.
TransportError == 0

\* ------------------------------------------------------------------ inputs

PublicIP == "9.9.9.9"
PrivateIP == "10.0.0.5"
IPs == {PublicIP, PrivateIP}

\* net.IP.IsPrivate (RFC 1918 / ULA) on the addresses of the model.
privateIpCheck(ip) == ip = PrivateIP

Min(a, b) == IF a < b THEN a ELSE b
Max(a, b) == IF a > b THEN a ELSE b

\* ------------------------------------------------------ the arbiter's HTTP

\* How the arbiter answers the successive POSTs of one call: the first
\* `failures` attempts get `failKind` (a 5xx or no answer at all), every
\* later attempt gets `final`.
ResponsePlans ==
    [failures : 0..(maxRetries + 1),
     failKind : {StatusServerError, TransportError},
     final    : {StatusOK, StatusTooManyRequests, StatusNotFound}]

Answer(plan, attempt) ==
    IF attempt < plan.failures THEN plan.failKind ELSE plan.final

RaiseBackoff_keep(backoff) == backoff

\* backoff *= 2
RaiseBackoff(backoff) == backoff * 2

\* recommendInternal's attempt loop from attempt `attempt` on; `backoff` is
\* the next wait in seconds, `answers` are the answers received and `waits`
\* the waits slept so far.  Result: the returned error ("nil", "ratelimit"
\* for *RateLimitError, "error" for any other error), the answers of all
\* POSTs made and the waits between them.
RECURSIVE recommendAttempt(_, _, _, _, _)
recommendAttempt(plan, attempt, backoff, answers, waits) ==
    LET status == Answer(plan, attempt)
        seen == Append(answers, status)
        retry == recommendAttempt(plan, attempt + 1, RaiseBackoff(backoff), seen,
                                  Append(waits, backoff))
    IN  IF status = TransportError
        THEN IF attempt < maxRetries
             THEN retry
             ELSE [err |-> "error", answers |-> seen, waits |-> waits]
        ELSE IF status = StatusTooManyRequests
        THEN [err |-> "ratelimit", answers |-> seen, waits |-> waits]
        ELSE IF status = StatusOK
        THEN [err |-> "nil", answers |-> seen, waits |-> waits]
        ELSE IF status >= 500 /\ attempt < maxRetries
        THEN retry
        ELSE [err |-> "error", answers |-> seen, waits |-> waits]

recommendInternal(plan) == recommendAttempt(plan, 0, initBackoff, <<>>, <<>>)

\* APIClient.DoRequest's attempt loop: only a 200 yields a response, every
\* other final answer is turned into a plain error.
RECURSIVE DoRequestAttempt(_, _, _, _, _)
DoRequestAttempt(plan, attempt, backoff, answers, waits) ==
    LET status == Answer(plan, attempt)
        seen == Append(answers, status)
        retry == DoRequestAttempt(plan, attempt + 1, RaiseBackoff(backoff), seen,
                                  Append(waits, backoff))
    IN  IF status = TransportError
        THEN IF attempt < maxRetries
             THEN retry
             ELSE [resp |-> TransportError, err |-> "error", answers |-> seen,
                   waits |-> waits]
        ELSE IF status = StatusOK
        THEN [resp |-> status, err |-> "nil", answers |-> seen, waits |-> waits]
        ELSE IF status >= 500 /\ attempt < maxRetries
        THEN retry
        ELSE [resp |-> TransportError, err |-> "error", answers |-> seen,
              waits |-> waits]

DoRequest(plan) == DoRequestAttempt(plan, 0, initBackoff, <<>>, <<>>)

\* sendAlertInternal: POST /alert through DoRequest, then the checks on the
\* response it got back.
sendAlertInternal(plan) ==
    LET r == DoRequest(plan)
    IN  IF r.err # "nil"
        THEN [err |-> r.err, answers |-> r.answers, waits |-> r.waits]
        ELSE IF r.resp = StatusTooManyRequests
        THEN [err |-> "ratelimit", answers |-> r.answers, waits |-> r.waits]
        ELSE IF r.resp >= 400
        THEN [err |-> "error", answers |-> r.answers, waits |-> r.waits]
        ELSE [err |-> "nil", answers |-> r.answers, waits |-> r.waits]

isRateLimitError(err) == err = "ratelimit"

\* ------------------------------------------------------------ retry queue

\* RetryQueue.Add: the item appended to rq.items.  `id` names the item in
\* the history kept for the properties; the code has no such field.
NewItem(id, itemType, ip, decisions) ==
    [id |-> id, ItemType |-> itemType, ip |-> ip, decisions |-> decisions,
     Attempts |-> 0, wait |-> InitialRetrySeconds]

Backoff_linear(attempts) == Min(InitialRetrySeconds * attempts, MaxBackoffSeconds)

\* 5 * (1 << attempts) seconds, capped at five minutes.
Backoff(attempts) == Min(InitialRetrySeconds * (2 ^ attempts), MaxBackoffSeconds)

\* The internal sender processReadyItems picks for an item.
sendInternal(item, plan) ==
    IF item.ItemType = "alert"
    THEN sendAlertInternal(plan)
    ELSE recommendInternal(plan)

GiveUp_never(attempts) == FALSE

\* "Check if we should give up".
GiveUp(attempts) == attempts >= maxAttempts

requeue_keepAccepted(item, success) ==
    <<[item EXCEPT !.wait = InitialRetrySeconds]>>

\* What processReadyItems appends to `remaining` for a ready item once its
\* sender returned.
requeue(item, success) ==
    IF success
    THEN <<>>
    ELSE LET attempts == item.Attempts + 1
         IN  IF GiveUp(attempts)
             THEN <<>>
             ELSE <<[item EXCEPT !.Attempts = attempts,
                                 !.wait = Backoff(attempts)]>>

\* now.Before(item.NextRetry)
NotReady(item) == item.wait > 0

RECURSIVE processReadyItems_reversed(_, _)
processReadyItems_reversed(items, plans) ==
    IF items = <<>>
    THEN <<>>
    ELSE LET item == Head(items)
             rest == processReadyItems_reversed(Tail(items), plans)
         IN  IF NotReady(item)
             THEN rest \o <<item>>
             ELSE rest \o requeue(item, sendInternal(item, plans[item.id]).err = "nil")

\* processReadyItems' loop: the new rq.items.  plans[id] is how the arbiter
\* answers the re-submission of item id.
RECURSIVE processReadyItems(_, _)
processReadyItems(items, plans) ==
    IF items = <<>>
    THEN <<>>
    ELSE LET item == Head(items)
             rest == processReadyItems(Tail(items), plans)
         IN  IF NotReady(item)
             THEN <<item>> \o rest
             ELSE requeue(item, sendInternal(item, plans[item.id]).err = "nil") \o rest

\* ------------------------------------------------------------------ state

VARIABLES
    whitelist,        \* WhitelistManager.ranger: the CIDRs of the current trie
    storedBlocklists, \* blocklist.storedBlocklists
    alertThreshold,   \* cfg.AlertThreshold
    scoreDB,          \* table ip_scores: ip -> row or NoRow
    ScoreCache,       \* sqlite.ScoreCache: ip -> entry or NoEntry
    RecommendCache,   \* arbiter.RecommendCache, most recently used first
    evals,            \* the EvaluateAndAct goroutines
    workers,          \* the update workers of StartListening
    rq_items,         \* globalRetryQueue.items
    hist,             \* history: what became of each item ever queued
    lastCall,         \* history: the last call of recommend / SendAlert
    written,          \* history: the last completed write of each address's score
    nIngest,          \* (src, dst) pairs handed over so far
    nUpdates,         \* updates taken off the update channel so far
    nextId,           \* items queued so far, plus one
    days              \* whole days elapsed so far

VARIABLES
    updateChan,       \* StartListening's updateChan, oldest update first
    received          \* history: the updates put on updateChan, in arrival order

pushVars == <<updateChan, received>>

VARIABLES
    rootCancelled,    \* main's rootCtx is cancelled
    cfgSub,           \* cfg.SniffTraffic and cfg.RunSyslog
    controllers,      \* arbiter.controllers: the two cancel functions and mu
    adapters,         \* the ingest adapters ever started, oldest first
    syncs,            \* the SyncSensorConfig calls in progress, by caller
    nSyncs,           \* SyncSensorConfig calls begun so far
    tasks,            \* the goroutines main registers with wg
    mainPc,           \* where main is
    wg                \* the counter of main's sync.WaitGroup

supVars == <<rootCancelled, cfgSub, controllers, adapters, syncs, nSyncs,
             tasks, mainPc, wg>>

VARIABLES
    arbiterAccepts,   \* environment: from now on the arbiter answers 200
    outbox,           \* history: the calls of recommend EvaluateAndAct made
    lastAct           \* history: what the last EvaluateAndAct submitted

deliverVars == <<arbiterAccepts, outbox, lastAct>>

\* The state of the update channel, of the supervisor and of the delivery
\* history, which the evaluator, the retry queue and the reputation store
\* leave alone.
VARIABLES
    keyArg,           \* the decisions a caller passes to generateCacheKey
    keyCalls          \* history: the calls of generateCacheKey made with them

keyVars == <<keyArg, keyCalls>>

VARIABLES
    uConn,            \* UpdateStreamerImpl.conn: a connection, 0 for nil
    client,           \* StartUpdateWebSocketClient: where it is, its backoff
    conns,            \* the websocket connections dialed and not forgotten
    readLoops,        \* the read loop StartListening started for each of them
    pingers,          \* the PingKeepalive goroutines, one per dial
    listeners,        \* the dials whose StartListening made a channel and its workers
    nLosses,          \* connections the network has dropped so far
    reachable         \* environment: a dial of the arbiter succeeds

wsVars == <<uConn, client, conns, readLoops, pingers, listeners, nLosses, reachable>>

VARIABLES
    ingress,          \* the read loop between ReadMessage and the channel send
    processed         \* history: the last update ProcessUpdate was given

ingressVars == <<ingress, processed>>

VARIABLES
    wlSyncs,          \* the WhitelistManager.Sync calls in progress, by caller
    wlRead,           \* an IsWhitelisted call
    published         \* history: the lists swapped in so far and their tries

wlVars == <<wlSyncs, wlRead, published>>

VARIABLES
    purge,            \* a dedup cache handed to removeRecommendCacheEntriesByIP
    boot,             \* main from InitializeSystem on: where it is, what is initialised
    dbPool            \* the store's connection pool and the calls using it

auxVars == <<purge, boot, dbPool>>

restVars == <<keyVars, wsVars, ingressVars, wlVars, auxVars>>

extVars == <<pushVars, supVars, deliverVars, restVars>>

\* The callers of SyncSensorConfig: main's hourly loop, an update worker
\* handling a config-update, and main itself at startup.
SyncCallers == {"hourly", "worker", "main"}
IdleSync == [pc |-> "idle"]

vars == <<whitelist, storedBlocklists, alertThreshold, scoreDB, ScoreCache,
          RecommendCache, evals, workers, rq_items, hist, lastCall,
          written, nIngest, nUpdates, nextId, days, extVars>>

configVars == <<whitelist, storedBlocklists, alertThreshold>>
storeVars == <<scoreDB, ScoreCache, written, days>>
taskVars == <<evals, workers, nIngest, nUpdates>>
queueVars == <<rq_items, hist, nextId>>

ItemIds == 1..MaxItems
NoHist == [state |-> "none", tries |-> 0]
NoCall == [fn |-> "none"]

QueuedIds == {rq_items[i].id : i \in DOMAIN rq_items}
QueuedItem(id) == CHOOSE item \in {rq_items[i] : i \in DOMAIN rq_items} : item.id = id

\* -------------------------------------------------------------- whitelist

\* net.ParseCIDR on the entries a /sync/whitelist answer may carry.
ValidCIDRs == {"9.9.9.9/32", "10.0.0.0/8", "2001:db8::/32"}

\* The addresses of the model inside a network.
CidrMembers(cidr) ==
    IF cidr = "9.9.9.9/32" THEN {PublicIP}
    ELSE IF cidr = "10.0.0.0/8" THEN {PrivateIP}
    ELSE IF cidr = "2001:db8::/32" THEN {"2001:db8::1"}
    ELSE {}

\* The CIDR lists /sync/whitelist may answer with.
WhitelistResponses == {<<>>, <<"9.9.9.9/32">>, <<"not-a-cidr", "10.0.0.0/8">>}

\* WhitelistManager.Sync: the trie built from the answer, invalid entries
\* skipped.
NewRanger(cidrs) == {cidrs[i] : i \in {j \in DOMAIN cidrs : cidrs[j] \in ValidCIDRs}}

\* WhitelistManager.IsWhitelisted on a given trie.
Contains(ranger, ip) == \E cidr \in ranger : ip \in CidrMembers(cidr)

IsWhitelisted(ip) == Contains(whitelist, ip)

\* The callers of WhitelistManager.Sync: the hourly tick of main and the
\* update worker on a whitelist-update.
WlCallers == {"hourly", "push"}

ShouldProcessPacket_srcOnly(src, dst) == ~IsWhitelisted(src)

\* recommender.ShouldProcessPacket
ShouldProcessPacket(src, dst) ==
    IF IsWhitelisted(src) THEN FALSE
    ELSE IF IsWhitelisted(dst) THEN FALSE
    ELSE TRUE

\* ------------------------------------------------------ reputation store

NoRow == [present |-> FALSE]
NoEntry == [cached |-> FALSE]

\* A row of ip_scores.  updated_at is kept as its age in whole days; the
\* zero time.Time (year 1) is ZeroTimeAgeDays old.
Row(score, age) == [present |-> TRUE, score |-> score, age |-> age]

\* A cachedScore: the row's score and updated_at, and the seconds left
\* until time.Since(cachedAt) reaches cacheTTL.
Entry(row) == [cached |-> TRUE, score |-> row.score, updatedAt |-> row.age, ttl |-> cacheTTL]

\* time.Since(t) in days: a Duration saturates at about 292 years.
SinceDays(age) == Min(age, MaxDurationDays)

\* math.Pow(0.5, d / 3) in millionths, d in whole days.
RECURSIVE HalfPowPpm(_)
HalfPowPpm(d) ==
    IF d >= 90 THEN 0
    ELSE IF d >= decayHalfLifeDays THEN HalfPowPpm(d - decayHalfLifeDays) \div 2
    ELSE IF d = 0 THEN 1000000
    ELSE IF d = 1 THEN 793701
    ELSE 629961

calculateDecayMultiplier(age) == Max(HalfPowPpm(SinceDays(age)), minDecayPpm)

\* int32(math.Round(score * multiplier)), for score >= 0.
applyDecay(originalScore, age) ==
    IF originalScore = 0
    THEN 0
    ELSE (originalScore * calculateDecayMultiplier(age) + 500000) \div 1000000

\* Lookup's cache check: a hit is an entry younger than cacheTTL.
CacheHit(entry) == entry.cached /\ entry.ttl > 0

\* sqlite.Lookup(ip) when nothing else touches the store meanwhile: the
\* score it returns and the cache it leaves.
Lookup(ip) ==
    IF CacheHit(ScoreCache[ip])
    THEN applyDecay(ScoreCache[ip].score, ScoreCache[ip].updatedAt)
    ELSE IF ~scoreDB[ip].present
    THEN 0
    ELSE applyDecay(scoreDB[ip].score, scoreDB[ip].age)

CacheAfterLookup(ip) ==
    IF CacheHit(ScoreCache[ip]) \/ ~scoreDB[ip].present
    THEN ScoreCache
    ELSE [ScoreCache EXCEPT ![ip] = Entry(scoreDB[ip])]

\* ------------------------------------------------------------------- time

\* The timers running: the waits of queued items, the validity of cache
\* entries.
Timers ==
    {rq_items[i].wait : i \in DOMAIN rq_items}
        \cup {ScoreCache[ip].ttl : ip \in {a \in IPs : ScoreCache[a].cached}}

\* d seconds pass, up to the next timer that runs out.
Elapse ==
    /\ \E d \in {t \in Timers : t > 0} :
         /\ rq_items' = [i \in DOMAIN rq_items |->
                           [rq_items[i] EXCEPT !.wait = Max(0, @ - d)]]
         /\ ScoreCache' = [ip \in IPs |->
                             IF ScoreCache[ip].cached
                             THEN [ScoreCache[ip] EXCEPT !.ttl = Max(0, @ - d)]
                             ELSE ScoreCache[ip]]
    /\ UNCHANGED <<extVars, configVars, scoreDB, written, days, RecommendCache, taskVars,
                   hist, nextId, lastCall>>

\* ------------------------------------------------- retry queue: the steps

\* The blocking decisions an item of the model may carry.
BlockDecision(score, threshold, name) ==
    [Block |-> TRUE, Reason |-> <<"Score", score, ">= threshold", threshold>>,
     Blocklist |-> name]

\* rq.Add(itemType, data), under rq.mu.
Add(itemType, ip, decisions) ==
    /\ rq_items' = Append(rq_items, NewItem(nextId, itemType, ip, decisions))
    /\ hist' = [hist EXCEPT ![nextId] = [state |-> "queued", tries |-> 0]]
    /\ nextId' = nextId + 1

\* The ready items of the queue, and what a pass makes of item `id`.
ReadyIds == {rq_items[i].id : i \in {j \in DOMAIN rq_items : ~NotReady(rq_items[j])}}

HistAfter(id, remaining, plans) ==
    IF id \notin ReadyIds
    THEN hist[id]
    ELSE [state |-> IF sendInternal(QueuedItem(id), plans[id]).err = "nil"
                    THEN "accepted"
                    ELSE IF \E i \in DOMAIN remaining : remaining[i].id = id
                    THEN "queued"
                    ELSE "dropped",
          tries |-> hist[id].tries + 1]

\* One tick of ProcessQueue: processReadyItems, the whole pass under rq.mu.
ProcessQueueTick ==
    /\ ReadyIds # {}
    /\ \E plans \in [ReadyIds -> ResponsePlans] :
         LET remaining == processReadyItems(rq_items, plans)
         IN  /\ rq_items' = remaining
             /\ hist' = [id \in ItemIds |-> HistAfter(id, remaining, plans)]
    /\ UNCHANGED <<extVars, configVars, storeVars, RecommendCache, taskVars, lastCall, nextId>>

\* A caller of the queue: rq.Add with an alert or a recommendation.
QueueAdd ==
    /\ nextId <= MaxItems
    /\ \E itemType \in {"alert", "recommendation"}, ip \in {PublicIP} :
         Add(itemType, ip,
             IF itemType = "alert" THEN <<>> ELSE <<BlockDecision(60, 40, "BL1")>>)
    /\ UNCHANGED <<extVars, configVars, storeVars, RecommendCache, taskVars, lastCall>>



\* -------------------------------------------------------- decision engine

Threshold_public(bl, isPrivate) == bl.NfgScoreThresholdPublicIPs

\* The threshold ShouldBlock compares against, by the kind of address.
Threshold(bl, isPrivate) ==
    IF isPrivate THEN bl.NfgScoreThresholdPrivateIPs ELSE bl.NfgScoreThresholdPublicIPs

\* ShouldBlock's skip rules: the list does not cover this kind of address.
Skipped(bl, isPrivate) ==
    \/ isPrivate /\ ~bl.ShouldIncludePrivateIPs
    \/ ~isPrivate /\ ~bl.ShouldIncludePublicIPs

\* ShouldBlock's loop over the blocklists: the blocking decisions, in
\* blocklist order.
RECURSIVE BlockingDecisions(_, _, _)
BlockingDecisions(blocklists, isPrivate, score) ==
    IF blocklists = <<>>
    THEN <<>>
    ELSE LET bl == Head(blocklists)
             rest == BlockingDecisions(Tail(blocklists), isPrivate, score)
         IN  IF ~Skipped(bl, isPrivate) /\ score >= Threshold(bl, isPrivate)
             THEN <<BlockDecision(score, Threshold(bl, isPrivate), bl.Name)>> \o rest
             ELSE rest

\* recommender.ShouldBlock's decisions for a score it looked up.
ShouldBlock(ip, score) ==
    LET blocking == BlockingDecisions(storedBlocklists, privateIpCheck(ip), score)
    IN  IF blocking = <<>>
        THEN <<[Block |-> FALSE,
                Reason |-> <<"Score", score, "did not meet any blocklist threshold">>,
                Blocklist |-> "None"]>>
        ELSE blocking

\* EvaluateAndAct's filter: only the blocking decisions.
RECURSIVE blocksToReport(_)
blocksToReport(decisions) ==
    IF decisions = <<>>
    THEN <<>>
    ELSE IF Head(decisions).Block
    THEN <<Head(decisions)>> \o blocksToReport(Tail(decisions))
    ELSE blocksToReport(Tail(decisions))

\* ------------------------------------------------------- deduplication LRU

\* The characters of a decimal number, as codes.
RECURSIVE DigitCodes(_)
DigitCodes(n) ==
    IF n < 10 THEN <<48 + n>> ELSE Append(DigitCodes(n \div 10), 48 + (n % 10))

\* The characters of a blocklist name, as codes.
NameCodes(name) ==
    IF name = "BL1" THEN <<66, 76, 49>>
    ELSE IF name = "0BL1" THEN <<48, 66, 76, 49>>
    ELSE IF name = "BL2" THEN <<66, 76, 50>>
    ELSE <<78>>

\* d.Reason + d.Blocklist of a blocking decision from its first differing
\* character on: "<score> >= threshold <threshold><name>".
SortKey(d) ==
    DigitCodes(d.Reason[2]) \o <<32>> \o DigitCodes(d.Reason[4]) \o NameCodes(d.Blocklist)

\* Go's string comparison a < b.
RECURSIVE StringLess(_, _)
StringLess(a, b) ==
    IF b = <<>> THEN FALSE
    ELSE IF a = <<>> THEN TRUE
    ELSE IF Head(a) # Head(b) THEN Head(a) < Head(b)
    ELSE StringLess(Tail(a), Tail(b))

\* sort.Slice(decisions, less) with less on Reason + Blocklist.
RECURSIVE InsertSorted(_, _)
InsertSorted(d, sorted) ==
    IF sorted = <<>> THEN <<d>>
    ELSE LET last == sorted[Len(sorted)]
             front == SubSeq(sorted, 1, Len(sorted) - 1)
         IN  IF StringLess(SortKey(d), SortKey(last))
             THEN Append(InsertSorted(d, front), last)
             ELSE Append(sorted, d)

\* Below 13 elements sort.Slice is an insertion sort: each element moves
\* left past the elements it is less than, so equal ones keep their order.
RECURSIVE SortDecisions(_)
SortDecisions(decisions) ==
    IF decisions = <<>> THEN <<>>
    ELSE InsertSorted(decisions[Len(decisions)],
                      SortDecisions(SubSeq(decisions, 1, Len(decisions) - 1)))

\* generateCacheKey: "ip:<ip>:decisions:<sha256 of the sorted decisions>".
generateCacheKey(ip, decisions) == [ip |-> ip, decisions |-> SortDecisions(decisions)]

\* Positions of a key in the LRU (at most one).
KeyIndex(cache, key) == {i \in DOMAIN cache : cache[i].key = key}

Without(cache, i) == SubSeq(cache, 1, i - 1) \o SubSeq(cache, i + 1, Len(cache))

\* RecommendCache.Get(key): found or not; a hit moves the entry to the front.
CacheGetFound(cache, key) == KeyIndex(cache, key) # {}

CacheAfterGet(cache, key) ==
    IF KeyIndex(cache, key) = {}
    THEN cache
    ELSE LET i == CHOOSE j \in KeyIndex(cache, key) : TRUE
         IN  <<cache[i]>> \o Without(cache, i)

\* RecommendCache.Add(key, struct{}{}): a known key moves to the front, a
\* new one is put there and the oldest entry evicted when over capacity.
\* `n` counts the recommendations submitted for the key since it entered
\* the cache; the code keeps no such count.
CacheAfterAdd(cache, key) ==
    IF KeyIndex(cache, key) # {}
    THEN CacheAfterGet(cache, key)
    ELSE LET grown == <<[key |-> key, n |-> 0]>> \o cache
         IN  IF Len(grown) > RecCacheSize THEN SubSeq(grown, 1, RecCacheSize) ELSE grown

\* The count of a key bumped, if the key is still cached.
CacheCounted(cache, key) ==
    [i \in DOMAIN cache |->
        IF cache[i].key = key THEN [cache[i] EXCEPT !.n = @ + 1] ELSE cache[i]]

\* ------------------------------------------------------- submission calls

recommend_returnErr(plan) ==
    [ret |-> recommendInternal(plan).err, queued |-> FALSE,
     answers |-> recommendInternal(plan).answers,
     waits |-> recommendInternal(plan).waits]

\* arbiter.recommend: what it returns and whether it queues the submission.
recommend(plan) ==
    LET r == recommendInternal(plan)
    IN  IF r.err # "nil" /\ isRateLimitError(r.err)
        THEN [ret |-> "nil", queued |-> TRUE, answers |-> r.answers, waits |-> r.waits]
        ELSE [ret |-> r.err, queued |-> FALSE, answers |-> r.answers, waits |-> r.waits]

\* arbiter.SendAlert: what it returns and whether it queues the alert.
SendAlert(plan) ==
    LET r == sendAlertInternal(plan)
    IN  IF r.err # "nil" /\ isRateLimitError(r.err)
        THEN [ret |-> "nil", queued |-> TRUE, answers |-> r.answers, waits |-> r.waits]
        ELSE [ret |-> r.err, queued |-> FALSE, answers |-> r.answers, waits |-> r.waits]

\* ---------------------------------------------------------- initial state

\* types.Blocklist
Blocklist(name, inclPublic, inclPrivate, thPublic, thPrivate) ==
    [Name |-> name,
     ShouldIncludePublicIPs |-> inclPublic,
     ShouldIncludePrivateIPs |-> inclPrivate,
     NfgScoreThresholdPublicIPs |-> thPublic,
     NfgScoreThresholdPrivateIPs |-> thPrivate]

\* The lists /sync/blocklist answers with.
BlocklistsResponse == <<Blocklist("BL1", TRUE, FALSE, 40, 40)>>

\* A completed write: how many writes of the address completed so far, who
\* wrote, the raw score written and the day it was written on.
Written(seq, by, score, day) == [seq |-> seq, by |-> by, score |-> score, day |-> day]

IdleEval == [pc |-> "idle"]
IdleWorker == [pc |-> "idle"]

\* What InitializeSystem initialises after its SyncSensorConfig, in order.
BootSteps == <<"arbiter.Sync", "blocklist.Sync", "wm.Sync", "InitCache", "InitRecommendCache">>

\* Startup is over: everything initialised, the blocklists as last synced.
Booted ==
    /\ boot = [pc |-> "running", done |-> {BootSteps[i] : i \in DOMAIN BootSteps}]
    /\ storedBlocklists = BlocklistsResponse

\* No cache handed over, no call made.
NoPurge == [cache |-> <<>>, calls |-> <<>>]

\* No call of the store in progress, the pool's connection idle.
NoStoreCall == [fn |-> "none", pc |-> "none", ip |-> PublicIP]
NoPool == [holder |-> 0, calls |-> [k \in 1..MaxStoreCalls |-> NoStoreCall]]

\* After construction and bootstrap: nothing running, nothing queued, both
\* caches empty, whitelist and blocklists as last synced.
InitState ==
    /\ dbPool = NoPool
    /\ ScoreCache = [ip \in IPs |-> NoEntry]
    /\ RecommendCache = <<>>
    /\ evals = [t \in 1..MaxEvals |-> IdleEval]
    /\ workers = [w \in 1..numWorkers |-> IdleWorker]
    /\ rq_items = <<>>
    /\ hist = [id \in ItemIds |-> NoHist]
    /\ lastCall = NoCall
    /\ nIngest = 0
    /\ nUpdates = 0
    /\ nextId = 1
    /\ days = 0
    /\ received = <<>>
    /\ rootCancelled = FALSE
    /\ cfgSub = [SniffTraffic |-> FALSE, RunSyslog |-> FALSE]
    /\ controllers = [trafficCancel |-> 0, syslogCancel |-> 0, mu |-> "free"]
    /\ adapters = <<>>
    /\ syncs = [c \in SyncCallers |-> IdleSync]
    /\ nSyncs = 0
    /\ tasks = [updates |-> "Dial", hourly |-> "select", heartbeat |-> "select"]
    /\ mainPc = "running"
    /\ wg = 3
    /\ arbiterAccepts = FALSE
    /\ outbox = <<>>
    /\ lastAct = [ip |-> "none"]
    /\ keyCalls = <<>>
    /\ uConn = 0
    /\ client = [pc |-> "Dial", currentBackoff |-> initialBackoff, slept |-> 0]
    /\ conns = [c \in 1..MaxConns |-> "none"]
    /\ readLoops = [c \in 1..MaxConns |-> [pc |-> "none"]]
    /\ pingers = [c \in 1..MaxConns |-> [pc |-> "none"]]
    /\ listeners = {}
    /\ nLosses = 0
    /\ reachable = FALSE
    /\ ingress = [pc |-> "ReadMessage", frames |-> 0, dropped |-> 0]
    /\ processed = [Type |-> "none", n |-> 0, failures |-> 0]
    /\ wlSyncs = [c \in WlCallers |-> [pc |-> "idle"]]
    /\ wlRead = [pc |-> "idle"]
    /\ published = <<[cidrs |-> <<>>, ranger |-> {}]>>

\* The same, with no decisions in a caller's hands and nothing on the
\* update channel.
InitCommon ==
    /\ InitState
    /\ Booted
    /\ keyArg = <<>>
    /\ purge = NoPurge
    /\ updateChan = <<>>

\* The store after bootstrap, holding the given rows.
InitStore(rows) ==
    /\ scoreDB = rows
    /\ written = [ip \in IPs |->
                    Written(0, "bootstrap",
                            IF rows[ip].present THEN rows[ip].score ELSE 0, 0)]

\* ------------------------------------------ the retry queue on its own

InitQueue ==
    /\ InitCommon
    /\ whitelist = {}
    /\ alertThreshold = 50
    /\ InitStore([ip \in IPs |-> NoRow])

NextQueue ==
    \/ QueueAdd
    \/ ProcessQueueTick
    \/ Elapse

SpecQueue == InitQueue /\ [][NextQueue]_vars

\* C3: every queued item has 0 <= Attempts <= 10, and no item is ever
\* re-submitted by the drain loop more than 10 times.
AttemptsBounded ==
    /\ \A i \in DOMAIN rq_items :
         rq_items[i].Attempts >= 0 /\ rq_items[i].Attempts <= maxAttempts
    /\ \A id \in ItemIds : hist[id].tries <= maxAttempts

\* An item was dropped after its tenth failed re-submission.
DroppedAfterTen == \E id \in ItemIds : hist[id].state = "dropped" /\ hist[id].tries = maxAttempts

\* C28: in a pass of the drain loop an item that is not yet due stays as it
\* is; an item whose re-submission fails has its attempts raised by one and
\* stays queued with its next retry min(5 * 2^attempts s, 5 min) away when
\* the attempts are below 10, and leaves the queue otherwise.
FailedRetryBacksOff ==
    [][ (hist' # hist /\ nextId' = nextId)
            => \A i \in DOMAIN rq_items :
                 LET item == rq_items[i]
                     attempts == item.Attempts + 1
                 IN  IF item.wait > 0
                     THEN \E j \in DOMAIN rq_items' : rq_items'[j] = item
                     ELSE hist'[item.id].state # "accepted"
                            => IF attempts < 10
                               THEN \E j \in DOMAIN rq_items' :
                                       rq_items'[j] =
                                          [item EXCEPT !.Attempts = attempts,
                                                       !.wait = Min(5 * 2 ^ attempts, 300)]
                               ELSE \A j \in DOMAIN rq_items' : rq_items'[j].id # item.id ]_vars

\* An item waits the full five minutes after a failed re-submission while
\* another one is queued behind it.
WaitsFiveMinutes ==
    /\ Len(rq_items) = 2
    /\ rq_items[1].Attempts >= 6
    /\ rq_items[1].wait = 300

\* C4: an item accepted (200) in a drain pass is out of the queue from then
\* on and is never re-submitted again.
AcceptedIsFinal ==
    /\ [](\A id \in ItemIds : hist[id].state = "accepted" => id \notin QueuedIds)
    /\ [][\A id \in ItemIds : hist[id].state = "accepted" => hist'[id] = hist[id]]_vars

\* An item was accepted on a re-submission while another one stays queued.
AcceptedWhileOthersQueued ==
    \E id \in ItemIds : hist[id].state = "accepted" /\ hist[id].tries >= 2 /\ rq_items # <<>>

\* ----------------------------------------- the submission calls on their own

\* The record kept of a call: what was sent, what the arbiter answered to
\* each POST, what the call returned and how many items it queued.
Call(fn, ip, decisions, r, added) ==
    [fn |-> fn, ip |-> ip, decisions |-> decisions, answers |-> r.answers, waits |-> r.waits,
     ret |-> r.ret, added |-> added]

\* The decision lists a recommendation of the model may carry.
DecisionLists == {<<BlockDecision(60, 40, "BL1")>>, <<BlockDecision(45, 40, "BL1")>>}

\* A caller of recommend(cfg, ip, decisions).
CallRecommend ==
    /\ nextId <= MaxItems
    /\ \E ip \in IPs, decisions \in DecisionLists, plan \in ResponsePlans :
         LET r == recommend(plan)
         IN  /\ IF r.queued
                THEN Add("recommendation", ip, decisions)
                ELSE UNCHANGED queueVars
             /\ lastCall' = Call("recommend", ip, decisions, r,
                                 Len(rq_items') - Len(rq_items))
    /\ UNCHANGED <<extVars, configVars, storeVars, RecommendCache, taskVars>>

\* A caller of SendAlert(ipType, ip, relatedIp, source, cfg).
CallSendAlert ==
    /\ nextId <= MaxItems
    /\ \E ip \in IPs, plan \in ResponsePlans :
         LET r == SendAlert(plan)
         IN  /\ IF r.queued
                THEN Add("alert", ip, <<>>)
                ELSE UNCHANGED queueVars
             /\ lastCall' = Call("SendAlert", ip, <<>>, r,
                                 Len(rq_items') - Len(rq_items))
    /\ UNCHANGED <<extVars, configVars, storeVars, RecommendCache, taskVars>>

InitSubmit ==
    /\ InitCommon
    /\ whitelist = {}
    /\ alertThreshold = 50
    /\ InitStore([ip \in IPs |-> NoRow])

NextSubmit ==
    \/ CallRecommend
    \/ CallSendAlert

SpecSubmit == InitSubmit /\ [][NextSubmit]_vars

\* The call got a 429 among its answers.
RateLimited(call) == \E i \in DOMAIN call.answers : call.answers[i] = StatusTooManyRequests

\* The 429 was the last POST of the call.
NotRetriedInPlace(call) ==
    \A i \in DOMAIN call.answers :
        call.answers[i] = StatusTooManyRequests => i = Len(call.answers)

\* The call queued exactly one fresh item of the given type that carries
\* its ip and decisions.
QueuedOne(call, itemType) ==
    /\ call.added = 1
    /\ rq_items # <<>>
    /\ LET item == rq_items[Len(rq_items)]
       IN  /\ item.ItemType = itemType
           /\ item.ip = call.ip
           /\ item.decisions = call.decisions
           /\ item.Attempts = 0

\* C5: a POST /recommend answered 429 is not retried in place, queues
\* exactly one "recommendation" item with the same ip and decisions, and
\* recommend returns nil.
RecommendRateLimited ==
    (lastCall.fn = "recommend" /\ RateLimited(lastCall))
        => /\ NotRetriedInPlace(lastCall)
           /\ QueuedOne(lastCall, "recommendation")
           /\ lastCall.ret = "nil"

\* recommend got its 429 after a 5xx was retried in place, with an item
\* already queued.
RecommendRateLimitedAfterRetry ==
    /\ lastCall.fn = "recommend"
    /\ RateLimited(lastCall)
    /\ Len(lastCall.answers) > 1
    /\ Len(rq_items) = 2

\* C6: a POST /alert answered 429 is not retried in place, queues exactly
\* one "alert" item, and SendAlert returns nil.
AlertRateLimited ==
    (lastCall.fn = "SendAlert" /\ RateLimited(lastCall))
        => /\ NotRetriedInPlace(lastCall)
           /\ QueuedOne(lastCall, "alert")
           /\ lastCall.ret = "nil"

\* The answer is one the attempt loop retries in place.
Retriable(status) == status = TransportError \/ status >= 500

\* C26: one submission call makes at most four requests; every request but
\* the last got no answer or a 5xx, the waits before the retries are 1 s,
\* 2 s and 4 s, and a call whose fourth request fails as well returns an
\* error.
SubmissionBudget ==
    lastCall # NoCall =>
        /\ Len(lastCall.answers) \in 1..4
        /\ \A i \in 1..(Len(lastCall.answers) - 1) : Retriable(lastCall.answers[i])
        /\ lastCall.waits = SubSeq(<<1, 2, 4>>, 1, Len(lastCall.answers) - 1)
        /\ (Len(lastCall.answers) = 4 /\ Retriable(lastCall.answers[4]))
               => lastCall.ret = "error"

\* A call has used up its budget: four requests, three waits, an error.
BudgetExhausted ==
    /\ lastCall # NoCall
    /\ Len(lastCall.answers) = 4
    /\ \A i \in 1..4 : Retriable(lastCall.answers[i])
    /\ lastCall.waits = <<1, 2, 4>>

\* ------------------------------------------------------- the evaluator

IdleSlots == {t \in 1..MaxEvals : evals[t].pc = "idle"}

\* The (src, dst) pairs an adapter infers from a message or a packet.
Pairs == {<<PublicIP, PrivateIP>>, <<PrivateIP, PublicIP>>}

\* An ingest adapter handles one message: ShouldProcessPacket, then one
\* EvaluateAndAct goroutine for the source and one for the destination.
Ingest ==
    /\ nIngest < MaxIngest
    /\ Cardinality(IdleSlots) >= 2
    /\ \E pair \in Pairs :
         LET t1 == CHOOSE t \in IdleSlots : \A u \in IdleSlots : t <= u
             t2 == CHOOSE t \in IdleSlots \ {t1} : \A u \in IdleSlots \ {t1} : t <= u
         IN  evals' = IF ShouldProcessPacket(pair[1], pair[2])
                      THEN [evals EXCEPT ![t1] = [pc |-> "ShouldBlock", ip |-> pair[1]],
                                         ![t2] = [pc |-> "ShouldBlock", ip |-> pair[2]]]
                      ELSE evals
    /\ nIngest' = nIngest + 1
    /\ UNCHANGED <<extVars, configVars, storeVars, RecommendCache, workers, nUpdates,
                   queueVars, lastCall>>

\* decisions, score := recommender.ShouldBlock(ip)
EvalShouldBlock(t) ==
    /\ evals[t].pc = "ShouldBlock"
    /\ LET ip == evals[t].ip
           score == Lookup(ip)
       IN  /\ ScoreCache' = CacheAfterLookup(ip)
           /\ evals' = [evals EXCEPT ![t] =
                          [pc |-> "SendAlert", ip |-> ip, score |-> score,
                           decisions |-> ShouldBlock(ip, score)]]
    /\ UNCHANGED <<extVars, configVars, scoreDB, written, days, RecommendCache, workers,
                   nIngest, nUpdates, queueVars, lastCall>>

\* if score >= cfg.AlertThreshold { SendAlert(...) }, then the filter of
\* the blocking decisions; without any the evaluation is over.
EvalSendAlert(t) ==
    /\ evals[t].pc = "SendAlert"
    /\ LET ip == evals[t].ip
           blocks == blocksToReport(evals[t].decisions)
       IN  /\ IF evals[t].score >= alertThreshold
              THEN \E plan \in ResponsePlans :
                     LET r == SendAlert(plan)
                     IN  /\ IF r.queued
                            THEN Add("alert", ip, <<>>)
                            ELSE UNCHANGED queueVars
                          ELSE UNCHANGED queueVars
           /\ evals' = [evals EXCEPT ![t] =
                          IF Len(blocks) > 0
                          THEN [pc |-> "Get", ip |-> ip, blocks |-> blocks]
                          ELSE IdleEval]
    /\ UNCHANGED <<extVars, configVars, storeVars, RecommendCache, workers, nIngest,
                   nUpdates, lastCall>>

\* key := generateCacheKey(ip, blocksToReport), which sorts blocksToReport
\* in place; RecommendCache.Get(key): a duplicate ends the evaluation.
EvalGet(t) ==
    /\ evals[t].pc = "Get"
    /\ LET key == generateCacheKey(evals[t].ip, evals[t].blocks)
       IN  /\ RecommendCache' = CacheAfterGet(RecommendCache, key)
           /\ evals' = [evals EXCEPT ![t] =
                          IF CacheGetFound(RecommendCache, key)
                          THEN IdleEval
                          ELSE [pc |-> "Add", ip |-> evals[t].ip,
                                blocks |-> key.decisions]]
    /\ UNCHANGED <<extVars, configVars, storeVars, workers, nIngest, nUpdates, queueVars,
                   lastCall>>

\* RecommendCache.Add(key, struct{}{})
EvalAdd(t) ==
    /\ evals[t].pc = "Add"
    /\ RecommendCache' = CacheAfterAdd(RecommendCache,
                                       generateCacheKey(evals[t].ip, evals[t].blocks))
    /\ evals' = [evals EXCEPT ![t] = [evals[t] EXCEPT !.pc = "recommend"]]
    /\ UNCHANGED <<extVars, configVars, storeVars, workers, nIngest, nUpdates, queueVars,
                   lastCall>>

\* recommend(cfg, ip, blocksToReport), the last statement that acts.
EvalRecommend(t) ==
    /\ evals[t].pc = "recommend"
    /\ nextId <= MaxItems
    /\ \E plan \in ResponsePlans :
         LET r == recommend(plan)
             ip == evals[t].ip
         IN  /\ IF r.queued
                THEN Add("recommendation", ip, evals[t].blocks)
                ELSE UNCHANGED queueVars
    /\ RecommendCache' = CacheCounted(RecommendCache,
                                      generateCacheKey(evals[t].ip, evals[t].blocks))
    /\ evals' = [evals EXCEPT ![t] = IdleEval]
    /\ UNCHANGED <<extVars, configVars, storeVars, workers, nIngest, nUpdates, lastCall>>

\* WhitelistManager.Sync, on a whitelist-update push and on the hourly tick.
SyncWhitelist ==
    /\ \E cidrs \in WhitelistResponses : whitelist' = NewRanger(cidrs)
    /\ UNCHANGED <<extVars, storedBlocklists, alertThreshold, storeVars, RecommendCache,
                   taskVars, queueVars, lastCall>>

\* The row the store holds for every address after bootstrap.
BootstrapRow == Row(60, 0)

Init ==
    /\ InitCommon
    /\ whitelist = {}
    /\ alertThreshold = 50
    /\ InitStore([ip \in IPs |-> BootstrapRow])

\* The sensor as main starts it.
Next ==
    \/ Ingest
    \/ \E t \in 1..MaxEvals : EvalShouldBlock(t)
    \/ \E t \in 1..MaxEvals : EvalSendAlert(t)
    \/ \E t \in 1..MaxEvals : EvalGet(t)
    \/ \E t \in 1..MaxEvals : EvalAdd(t)
    \/ \E t \in 1..MaxEvals : EvalRecommend(t)
    \/ SyncWhitelist
    \/ Elapse

Spec == Init /\ [][Next]_vars

\* C1: while a dedup key stays in the Deduplication Cache, at most one
\* recommendation is submitted for it.
OneRecommendPerKey == \A i \in DOMAIN RecommendCache : RecommendCache[i].n <= 1

\* Evaluation t makes a POST in this step: its recommendation, or its alert.
PostsNow(t) ==
    \/ evals[t].pc = "recommend" /\ evals'[t].pc = "idle"
    \/ evals[t].pc = "SendAlert" /\ evals'[t].pc # "SendAlert"
          /\ evals[t].score >= alertThreshold

\* C2: no POST to /alert or /recommend is made for an address that is in
\* the whitelist at the time it is sent.
NoPostForWhitelisted ==
    [][\A t \in 1..MaxEvals : PostsNow(t) => ~IsWhitelisted(evals[t].ip)]_vars

\* C22: a pair handed over while its source or its destination is
\* whitelisted starts no evaluation, for neither address, and so leads to
\* no POST.  (Every pair of the model has both addresses of the model.)
WhitelistedPairStartsNothing ==
    [][ (nIngest' = nIngest + 1 /\ \E ip \in IPs : IsWhitelisted(ip))
            => /\ evals' = evals
               /\ UNCHANGED <<RecommendCache, queueVars>> ]_vars

\* A pair was handed over, and all that were found a whitelisted address:
\* no evaluation is running and none has left a trace.
WhitelistedPairDropped ==
    /\ nIngest >= 1
    /\ whitelist # {}
    /\ \A t \in 1..MaxEvals : evals[t].pc = "idle"
    /\ RecommendCache = <<>>
    /\ nextId = 1

\* The running sensor under fair scheduling: a step that can be taken is
\* taken eventually (goroutines run, time passes, the hourly loop ticks).
SpecLive == Spec /\ WF_vars(Next)

\* C7: a submission queued after a 429 is eventually re-submitted by the
\* running system.
QueuedIsResubmitted ==
    \A id \in ItemIds : (hist[id].state = "queued") ~> (hist[id].tries >= 1)

\* --------------------------------------------- the reputation store facade

ActiveLookups == {t \in 1..MaxEvals : evals[t].pc \in {"Lookup", "DBLookup", "CacheAdd", "returned"}}

\* No score-update for the address is being processed.
NoPushInFlight(ip) == \A w \in 1..numWorkers : workers[w].pc = "idle" \/ workers[w].ip # ip

\* A caller enters sqlite.Lookup(ip).  `seq` remembers which write of the
\* address was the last completed one when the call began, and whether a
\* push was being processed then.
StartLookup ==
    /\ Cardinality(ActiveLookups) < MaxLookups
    /\ \E ip \in {PublicIP} :
         LET t == CHOOSE u \in IdleSlots : \A v \in IdleSlots : u <= v
         IN  evals' = [evals EXCEPT ![t] =
                         [pc |-> "Lookup", ip |-> ip, seq |-> written[ip].seq,
                          quiet |-> NoPushInFlight(ip)]]
    /\ UNCHANGED <<extVars, configVars, storeVars, RecommendCache, workers, nIngest,
                   nUpdates, queueVars, lastCall>>

\* The result Lookup returns from a raw score and its updated_at.
Returned(task, raw, age) ==
    [pc |-> "returned", ip |-> task.ip, seq |-> task.seq, quiet |-> task.quiet,
     raw |-> raw, age |-> age, result |-> applyDecay(raw, age), at |-> days]

\* ScoreCache.Get(ip) and the TTL check: a hit returns the decayed cached
\* score.
LookupGet(t) ==
    /\ evals[t].pc = "Lookup"
    /\ LET entry == ScoreCache[evals[t].ip]
       IN  evals' = [evals EXCEPT ![t] =
                       IF CacheHit(entry)
                       THEN Returned(evals[t], entry.score, entry.updatedAt)
                       ELSE [evals[t] EXCEPT !.pc = "DBLookup"]]
    /\ UNCHANGED <<extVars, configVars, storeVars, RecommendCache, workers, nIngest,
                   nUpdates, queueVars, lastCall>>

\* DBLookup(ip): no row returns 0, a row is kept for the next step.
LookupDB(t) ==
    /\ evals[t].pc = "DBLookup"
    /\ LET row == scoreDB[evals[t].ip]
       IN  evals' = [evals EXCEPT ![t] =
                       IF ~row.present
                       THEN Returned(evals[t], 0, 0)
                       ELSE [pc |-> "CacheAdd", ip |-> evals[t].ip, seq |-> evals[t].seq,
                             quiet |-> evals[t].quiet, record |-> row]]
    /\ UNCHANGED <<extVars, configVars, storeVars, RecommendCache, workers, nIngest,
                   nUpdates, queueVars, lastCall>>

\* ScoreCache.Add(ip, cachedScore{...}) with the row read before, and the
\* decayed score returned.
LookupAdd(t) ==
    /\ evals[t].pc = "CacheAdd"
    /\ ScoreCache' = [ScoreCache EXCEPT ![evals[t].ip] = Entry(evals[t].record)]
    /\ evals' = [evals EXCEPT ![t] =
                   Returned(evals[t], evals[t].record.score, evals[t].record.age)]
    /\ UNCHANGED <<extVars, configVars, scoreDB, written, days, RecommendCache, workers,
                   nIngest, nUpdates, queueVars, lastCall>>

\* The caller has its score.
LookupReturn(t) ==
    /\ evals[t].pc = "returned"
    /\ evals' = [evals EXCEPT ![t] = IdleEval]
    /\ UNCHANGED <<extVars, configVars, storeVars, RecommendCache, workers, nIngest,
                   nUpdates, queueVars, lastCall>>

\* The scores a push or a sync may carry.
PushedScores == {10}

\* The scores of the score-updates arriving on the websocket.
ArrivingScores == {10, 20}

\* types.ScoreRecord as ProcessUpdate builds it from a ScoreUpdate: IP and
\* NFGScore set, LastUpdated left at the zero time.
ScoreRecord(update) == [IP |-> update.Ip, NFGScore |-> update.Score, LastUpdated |-> ZeroTimeAgeDays]

\* The row INSERT OR REPLACE writes for a record.
RowOf(record) == Row(record.NFGScore, record.LastUpdated)

\* A worker takes a score-update off the update channel.
WorkerTake ==
    /\ nUpdates < MaxUpdates
    /\ \E ip \in {PublicIP}, score \in PushedScores :
         LET idle == {w \in 1..numWorkers : workers[w].pc = "idle"}
             w == CHOOSE u \in idle : \A v \in idle : u <= v
         IN  workers' = [workers EXCEPT ![w] =
                           [pc |-> "UpsertIpScore", ip |-> ip,
                            update |-> [Ip |-> ip, Score |-> score, Timestamp |-> 0]]]
    /\ nUpdates' = nUpdates + 1
    /\ UNCHANGED <<extVars, configVars, storeVars, RecommendCache, evals, nIngest,
                   queueVars, lastCall>>

\* ProcessUpdate, score-update: sqlite.UpsertIpScore(ScoreRecord{IP, NFGScore}).
WorkerUpsert(w) ==
    /\ workers[w].pc = "UpsertIpScore"
    /\ scoreDB' = [scoreDB EXCEPT ![workers[w].ip] = RowOf(ScoreRecord(workers[w].update))]
    /\ workers' = [workers EXCEPT ![w].pc = "Remove"]
    /\ UNCHANGED <<extVars, configVars, ScoreCache, written, days, RecommendCache, evals,
                   nIngest, nUpdates, queueVars, lastCall>>

\* The addresses a dedup key may be made for: those of the model and two
\* IPv6 addresses, the text of one continuing the text of the other.
KeyIPs == IPs \cup {"2001:db8::1", "2001:db8::1:2"}

\* The characters of an address.
Text(ip) ==
    CASE ip = "9.9.9.9" -> <<"9", ".", "9", ".", "9", ".", "9">>
      [] ip = "10.0.0.5" -> <<"1", "0", ".", "0", ".", "0", ".", "5">>
      [] ip = "2001:db8::1" -> <<"2", "0", "0", "1", ":", "d", "b", "8", ":", ":", "1">>
      [] ip = "2001:db8::1:2" ->
           <<"2", "0", "0", "1", ":", "d", "b", "8", ":", ":", "1", ":", "2">>

\* fmt.Sprintf("ip:%s:decisions:%s", ip, hashStr), the hash as one element.
KeyText(key) ==
    <<"i", "p", ":">> \o Text(key.ip)
        \o <<":", "d", "e", "c", "i", "s", "i", "o", "n", "s", ":">> \o <<key.decisions>>

\* prefix := fmt.Sprintf("ip:%s:", ip)
PrefixOf(ip) == <<"i", "p", ":">> \o Text(ip) \o <<":">>

\* len(key) >= len(prefix) && key[:len(prefix)] == prefix
HasPrefix(text, prefix) ==
    Len(text) >= Len(prefix) /\ SubSeq(text, 1, Len(prefix)) = prefix

\* removeRecommendCacheEntriesByIP: every key that starts with the
\* prefix of the address removed.
removeRecommendCacheEntriesByIP(cache, ip) ==
    SelectSeq(cache, LAMBDA e : ~HasPrefix(KeyText(e.key), PrefixOf(ip)))

\* ProcessUpdate, score-update: sqlite.ScoreCache.Remove(ip).
WorkerRemove(w) ==
    /\ workers[w].pc = "Remove"
    /\ ScoreCache' = [ScoreCache EXCEPT ![workers[w].ip] = NoEntry]
    /\ workers' = [workers EXCEPT ![w].pc = "removeRecommendCacheEntriesByIP"]
    /\ UNCHANGED <<extVars, configVars, scoreDB, written, days, RecommendCache, evals,
                   nIngest, nUpdates, queueVars, lastCall>>

\* ProcessUpdate, score-update: removeRecommendCacheEntriesByIP(ip); the
\* push is processed.
WorkerPurge(w) ==
    /\ workers[w].pc = "removeRecommendCacheEntriesByIP"
    /\ RecommendCache' = removeRecommendCacheEntriesByIP(RecommendCache, workers[w].ip)
    /\ written' = [written EXCEPT ![workers[w].ip] =
                     Written(@.seq + 1, "push", workers[w].update.Score, days)]
    /\ workers' = [workers EXCEPT ![w] = IdleWorker]
    /\ UNCHANGED <<extVars, configVars, scoreDB, ScoreCache, days, evals, nIngest,
                   nUpdates, queueVars, lastCall>>

\* BulkUpsertIpScores: INSERT OR REPLACE of every record, in order.
RECURSIVE BulkUpsertIpScores(_, _)
BulkUpsertIpScores(db, records) ==
    IF records = <<>>
    THEN db
    ELSE BulkUpsertIpScores([db EXCEPT ![Head(records).IP] = RowOf(Head(records))],
                            Tail(records))

Affected(records) == {records[i].IP : i \in DOMAIN records}

\* The write history after a bulk upsert by `by`.
WrittenAfter(records, by) ==
    LET db == BulkUpsertIpScores(scoreDB, records)
    IN  [ip \in IPs |->
           IF ip \in Affected(records)
           THEN Written(written[ip].seq + 1, by, db[ip].score, days)
           ELSE written[ip]]

\* The record lists the /sync/score archive may hold; LastUpdated comes
\* from the archive.
SyncResponses ==
    {<<[IP |-> PublicIP, NFGScore |-> 10, LastUpdated |-> 0]>>,
     <<[IP |-> PublicIP, NFGScore |-> 80, LastUpdated |-> 1],
       [IP |-> PrivateIP, NFGScore |-> 10, LastUpdated |-> 0]>>}

\* arbiter.Sync, at bootstrap and on the hourly tick: GET /sync/score and
\* BulkUpsertIpScores of all records.
Sync ==
    /\ nUpdates < MaxUpdates
    /\ \E records \in SyncResponses :
         /\ scoreDB' = BulkUpsertIpScores(scoreDB, records)
         /\ written' = WrittenAfter(records, "sync")
    /\ nUpdates' = nUpdates + 1
    /\ UNCHANGED <<extVars, configVars, ScoreCache, days, RecommendCache, evals, workers,
                   nIngest, queueVars, lastCall>>

\* ReSync's deduplication: per address the record with the latest
\* timestamp (the smallest age), the first one on a tie.
RECURSIVE Dedup(_, _)
Dedup(rawRecords, deduped) ==
    IF rawRecords = <<>>
    THEN deduped
    ELSE LET rec == Head(rawRecords)
             same == {i \in DOMAIN deduped : deduped[i].IP = rec.IP}
         IN  IF same = {}
             THEN Dedup(Tail(rawRecords), Append(deduped, rec))
             ELSE LET i == CHOOSE j \in same : TRUE
                  IN  IF rec.Timestamp < deduped[i].Timestamp
                      THEN Dedup(Tail(rawRecords), [deduped EXCEPT ![i] = rec])
                      ELSE Dedup(Tail(rawRecords), deduped)

\* "Reformat for DB insert": IP and NFGScore only.
Reformat(deduped) ==
    [i \in DOMAIN deduped |->
        [IP |-> deduped[i].IP, NFGScore |-> deduped[i].Score, LastUpdated |-> ZeroTimeAgeDays]]

\* The record lists /score-updates may answer with; Timestamp is the age of
\* the record's timestamp in days.
ReSyncResponses ==
    {<<[IP |-> PublicIP, Score |-> 80, Timestamp |-> 1],
       [IP |-> PublicIP, Score |-> 10, Timestamp |-> 0]>>}

\* arbiter.ReSync: GET /score-updates, BulkUpsertIpScores of the
\* deduplicated records, then ScoreCache.Remove of each of their addresses.
ReSync ==
    /\ nUpdates < MaxUpdates
    /\ \E rawRecords \in ReSyncResponses :
         LET allRecords == Reformat(Dedup(rawRecords, <<>>))
         IN  /\ scoreDB' = BulkUpsertIpScores(scoreDB, allRecords)
             /\ ScoreCache' = [ip \in IPs |->
                                 IF ip \in Affected(allRecords) THEN NoEntry
                                 ELSE ScoreCache[ip]]
             /\ written' = WrittenAfter(allRecords, "resync")
    /\ nUpdates' = nUpdates + 1
    /\ UNCHANGED <<extVars, configVars, days, RecommendCache, evals, workers, nIngest,
                   queueVars, lastCall>>

\* A day passes: every updated_at is a day older, every timer has run out.
ElapseDay ==
    /\ days < MaxDays
    /\ days' = days + 1
    /\ scoreDB' = [ip \in IPs |->
                     IF scoreDB[ip].present
                     THEN [scoreDB[ip] EXCEPT !.age = @ + 1]
                     ELSE scoreDB[ip]]
    /\ ScoreCache' = [ip \in IPs |->
                        IF ScoreCache[ip].cached
                        THEN [ScoreCache[ip] EXCEPT !.updatedAt = @ + 1, !.ttl = 0]
                        ELSE ScoreCache[ip]]
    /\ rq_items' = [i \in DOMAIN rq_items |-> [rq_items[i] EXCEPT !.wait = 0]]
    /\ UNCHANGED <<extVars, configVars, written, RecommendCache, taskVars, hist, nextId,
                   lastCall>>

InitScore ==
    /\ InitCommon
    /\ whitelist = {}
    /\ alertThreshold = 50
    /\ InitStore([ip \in IPs |-> IF ip = PublicIP THEN BootstrapRow ELSE NoRow])

NextScore ==
    \/ StartLookup
    \/ \E t \in 1..MaxEvals : LookupGet(t)
    \/ \E t \in 1..MaxEvals : LookupDB(t)
    \/ \E t \in 1..MaxEvals : LookupAdd(t)
    \/ \E t \in 1..MaxEvals : LookupReturn(t)
    \/ WorkerTake
    \/ \E w \in 1..numWorkers : WorkerUpsert(w)
    \/ \E w \in 1..numWorkers : WorkerRemove(w)
    \/ \E w \in 1..numWorkers : WorkerPurge(w)
    \/ Sync
    \/ ReSync
    \/ Elapse
    \/ ElapseDay

SpecScore == InitScore /\ [][NextScore]_vars

\* A lookup that has returned, began after the last write of its address
\* had completed, and saw no other write since.
AfterLastWrite(t, by) ==
    /\ evals[t].pc = "returned"
    /\ evals[t].quiet
    /\ evals[t].seq = written[evals[t].ip].seq
    /\ NoPushInFlight(evals[t].ip)
    /\ written[evals[t].ip].by \in by

\* C8: a lookup that follows a processed score-update push is computed from
\* the pushed raw score.
LookupSeesPush ==
    \A t \in 1..MaxEvals :
        AfterLastWrite(t, {"push"}) => evals[t].raw = written[evals[t].ip].score

\* C9: a lookup that follows a processed push returns the pushed score
\* decayed by the time since the push.
LookupDecaysFromPush ==
    \A t \in 1..MaxEvals :
        (AfterLastWrite(t, {"push"}) /\ evals[t].raw = written[evals[t].ip].score)
            => evals[t].result =
                 applyDecay(written[evals[t].ip].score,
                            evals[t].at - written[evals[t].ip].day)

\* C10: a lookup that follows a completed bulk upsert is computed from the
\* raw score the bulk upsert wrote.
LookupSeesBulkUpsert ==
    \A t \in 1..MaxEvals :
        AfterLastWrite(t, {"sync", "resync"}) => evals[t].raw = written[evals[t].ip].score

\* C20: of two lookups of an address with no write of its score in
\* between (both began after the last completed write, none in progress),
\* the one that returns on an earlier day returns at least what the later
\* one returns, from the cache or from the store.
LookupNonIncreasing ==
    \A t1, t2 \in 1..MaxEvals :
        (/\ AfterLastWrite(t1, {"bootstrap", "push", "sync", "resync"})
         /\ AfterLastWrite(t2, {"bootstrap", "push", "sync", "resync"})
         /\ evals[t1].ip = evals[t2].ip
         /\ evals[t1].at < evals[t2].at)
            => evals[t1].result >= evals[t2].result

\* C33: a lookup computed from a record whose updated_at is missing (the
\* zero time) returns the raw score, undecayed; no lookup returns a score
\* outside the int32 range, or above a raw score that is not negative.
MissingUpdatedAtIsNow ==
    \A t \in 1..MaxEvals :
        evals[t].pc = "returned"
            => /\ evals[t].age >= ZeroTimeAgeDays => evals[t].result = evals[t].raw
               /\ evals[t].result >= -2147483647 - 1 /\ evals[t].result <= 2147483647
               /\ evals[t].raw >= 0 => evals[t].result <= evals[t].raw

\* ------------------------------------------------------ the update channel

\* StartListening's read loop: a score-update read off the websocket is put
\* on updateChan, or dropped when the channel is full.
ReadMessage ==
    /\ Len(received) < MaxMessages
    /\ \E ip \in {PublicIP}, score \in ArrivingScores :
         LET data == [Ip |-> ip, Score |-> score, Timestamp |-> 0]
         IN  IF Len(updateChan) < updateChanCap
             THEN /\ updateChan' = Append(updateChan, data)
                  /\ received' = Append(received, data)
             ELSE UNCHANGED pushVars
    /\ UNCHANGED <<deliverVars, restVars, configVars, storeVars, RecommendCache, taskVars, queueVars,
                   lastCall, supVars>>

\* `for update := range updateChan` in one of the numWorkers goroutines: an
\* idle worker receives the oldest update and enters ProcessUpdate.
WorkerReceive ==
    /\ updateChan # <<>>
    /\ \E w \in 1..numWorkers :
         /\ workers[w].pc = "idle"
         /\ \A v \in 1..numWorkers : workers[v].pc = "idle" => w <= v
         /\ workers' = [workers EXCEPT ![w] =
                          [pc |-> "UpsertIpScore", ip |-> Head(updateChan).Ip,
                           update |-> Head(updateChan)]]
    /\ updateChan' = Tail(updateChan)
    /\ UNCHANGED <<deliverVars, restVars, configVars, storeVars, RecommendCache, evals, nIngest,
                   nUpdates, queueVars, lastCall, received, supVars>>

InitPush == InitScore

NextPush ==
    \/ ReadMessage
    \/ WorkerReceive
    \/ \E w \in 1..numWorkers : WorkerUpsert(w)
    \/ \E w \in 1..numWorkers : WorkerRemove(w)
    \/ \E w \in 1..numWorkers : WorkerPurge(w)

SpecPush == InitPush /\ [][NextPush]_vars

\* Every update received so far has been processed.
AllProcessed ==
    /\ updateChan = <<>>
    /\ \A w \in 1..numWorkers : workers[w].pc = "idle"

\* The positions in `received` of the updates for an address.
ReceivedFor(ip) == {i \in DOMAIN received : received[i].Ip = ip}

\* The update for an address that arrived last.
LastReceived(ip) ==
    received[CHOOSE i \in ReceivedFor(ip) : \A j \in ReceivedFor(ip) : j <= i]

\* C11: once every received score-update has been processed, the store
\* holds for each address the score of the update that arrived last, and
\* the score cache holds nothing older.
PushesInArrivalOrder ==
    AllProcessed =>
        \A ip \in IPs :
            ReceivedFor(ip) # {} =>
                /\ scoreDB[ip].present
                /\ scoreDB[ip].score = LastReceived(ip).Score
                /\ ~ScoreCache[ip].cached

\* ------------------------------------------------ the subsystem supervisor

Subsystems == {"traffic", "syslog"}

\* The context ReloadSubsystems derives an adapter's scope from: rootCtx for
\* the traffic monitor, context.Background() for the syslog server.
Parent(kind) == IF kind = "traffic" THEN "rootCtx" ELSE "Background"

\* cfg.SniffTraffic / cfg.RunSyslog
Enabled(kind) == IF kind = "traffic" THEN cfgSub.SniffTraffic ELSE cfgSub.RunSyslog

\* controllers.trafficCancel / controllers.syslogCancel: the adapter whose
\* scope the stored cancel function cancels, 0 for nil.
Token(kind) ==
    IF kind = "traffic" THEN controllers.trafficCancel ELSE controllers.syslogCancel

\* An adapter as its goroutine starts: its scope not cancelled, the adapter
\* running; the syslog server has a goroutine handling the log messages.
NewAdapter(kind) ==
    [kind |-> kind, parent |-> Parent(kind), cancelled |-> FALSE, running |-> TRUE,
     handler |-> IF kind = "syslog" THEN "select" ELSE "none", handed |-> 0]

\* ctx.Done() of an adapter's scope is closed.
Cancelled(a) ==
    adapters[a].cancelled \/ (adapters[a].parent = "rootCtx" /\ rootCancelled)

StopRunning_keep(ads, token) == ads

\* `if controllers.xCancel != nil { controllers.xCancel() }`
StopRunning(ads, token) ==
    IF token = 0 THEN ads ELSE [ads EXCEPT ![token].cancelled = TRUE]

\* One half of ReloadSubsystems: the running adapter of the subsystem is
\* stopped and its token cleared, and if cfg enables the subsystem a new
\* adapter is started and its token stored.
AdaptersAfterReload(kind) ==
    LET stopped == StopRunning(adapters, Token(kind))
    IN  IF Enabled(kind) THEN Append(stopped, NewAdapter(kind)) ELSE stopped

TokenAfterReload(kind) ==
    IF Enabled(kind) THEN Len(AdaptersAfterReload(kind)) ELSE 0

\* The answers GET /sync may give.
SyncAnswers ==
    [SniffTraffic : BOOLEAN, RunSyslog : BOOLEAN, AlertThreshold : {50}]

\* SyncSensorConfig begins: GET /sync and its decoded answer.
BeginSync(c, response) == [syncs EXCEPT ![c] = [pc |-> "cmpSniff", response |-> response]]

\* `cfg.SniffTraffic != response.SniffTraffic ||`
SyncCompareSniff(c) ==
    /\ syncs[c].pc = "cmpSniff"
    /\ syncs' = [syncs EXCEPT ![c].pc =
                   IF cfgSub.SniffTraffic # syncs[c].response.SniffTraffic
                   THEN "wrSniff" ELSE "cmpSyslog"]
    /\ UNCHANGED <<deliverVars, restVars, configVars, storeVars, RecommendCache, taskVars, queueVars,
                   lastCall, pushVars, rootCancelled, cfgSub, controllers,
                   adapters, nSyncs, tasks, mainPc, wg>>

\* `cfg.RunSyslog != response.RunSyslog`
SyncCompareSyslog(c) ==
    /\ syncs[c].pc = "cmpSyslog"
    /\ syncs' = [syncs EXCEPT ![c].pc =
                   IF cfgSub.RunSyslog # syncs[c].response.RunSyslog
                   THEN "wrSniff" ELSE "threshold"]
    /\ UNCHANGED <<deliverVars, restVars, configVars, storeVars, RecommendCache, taskVars, queueVars,
                   lastCall, pushVars, rootCancelled, cfgSub, controllers,
                   adapters, nSyncs, tasks, mainPc, wg>>

\* `cfg.SniffTraffic = response.SniffTraffic`
SyncWriteSniff(c) ==
    /\ syncs[c].pc = "wrSniff"
    /\ cfgSub' = [cfgSub EXCEPT !.SniffTraffic = syncs[c].response.SniffTraffic]
    /\ syncs' = [syncs EXCEPT ![c].pc = "wrSyslog"]
    /\ UNCHANGED <<deliverVars, restVars, configVars, storeVars, RecommendCache, taskVars, queueVars,
                   lastCall, pushVars, rootCancelled, controllers, adapters,
                   nSyncs, tasks, mainPc, wg>>

\* `cfg.RunSyslog = response.RunSyslog`
SyncWriteSyslog(c) ==
    /\ syncs[c].pc = "wrSyslog"
    /\ cfgSub' = [cfgSub EXCEPT !.RunSyslog = syncs[c].response.RunSyslog]
    /\ syncs' = [syncs EXCEPT ![c].pc = "reloadTraffic"]
    /\ UNCHANGED <<deliverVars, restVars, configVars, storeVars, RecommendCache, taskVars, queueVars,
                   lastCall, pushVars, rootCancelled, controllers, adapters,
                   nSyncs, tasks, mainPc, wg>>

\* ReloadSubsystems: controllers.mu.Lock() and the traffic monitor's half.
ReloadTraffic(c) ==
    /\ syncs[c].pc = "reloadTraffic"
    /\ controllers.mu = "free"
    /\ adapters' = AdaptersAfterReload("traffic")
    /\ controllers' = [controllers EXCEPT !.trafficCancel = TokenAfterReload("traffic"),
                                           !.mu = c]
    /\ syncs' = [syncs EXCEPT ![c].pc = "reloadSyslog"]
    /\ UNCHANGED <<deliverVars, restVars, configVars, storeVars, RecommendCache, taskVars, queueVars,
                   lastCall, pushVars, rootCancelled, cfgSub, nSyncs, tasks,
                   mainPc, wg>>

\* ReloadSubsystems: the syslog server's half and the deferred
\* controllers.mu.Unlock().
ReloadSyslog(c) ==
    /\ syncs[c].pc = "reloadSyslog"
    /\ controllers.mu = c
    /\ adapters' = AdaptersAfterReload("syslog")
    /\ controllers' = [controllers EXCEPT !.syslogCancel = TokenAfterReload("syslog"),
                                           !.mu = "free"]
    /\ syncs' = [syncs EXCEPT ![c].pc = "threshold"]
    /\ UNCHANGED <<deliverVars, restVars, configVars, storeVars, RecommendCache, taskVars, queueVars,
                   lastCall, pushVars, rootCancelled, cfgSub, nSyncs, tasks,
                   mainPc, wg>>

\* `cfg.AlertThreshold = response.AlertThreshold` and the return; the hourly
\* loop goes on with the other syncs of its tick.
SyncThreshold(c) ==
    /\ syncs[c].pc = "threshold"
    /\ alertThreshold' = syncs[c].response.AlertThreshold
    /\ syncs' = [syncs EXCEPT ![c] = IdleSync]
    /\ tasks' = IF c = "hourly" THEN [tasks EXCEPT !.hourly = "rest"] ELSE tasks
    /\ UNCHANGED <<deliverVars, restVars, whitelist, storedBlocklists, storeVars, RecommendCache,
                   taskVars, queueVars, lastCall, pushVars, rootCancelled,
                   cfgSub, controllers, adapters, nSyncs, mainPc, wg>>

\* main's hourly loop, `case <-ticker.C`: SyncSensorConfig begins.
HourlyTick ==
    /\ tasks.hourly = "select"
    /\ nSyncs < MaxSyncs
    /\ \E response \in SyncAnswers : syncs' = BeginSync("hourly", response)
    /\ nSyncs' = nSyncs + 1
    /\ tasks' = [tasks EXCEPT !.hourly = "SyncSensorConfig"]
    /\ UNCHANGED <<deliverVars, restVars, configVars, storeVars, RecommendCache, taskVars, queueVars,
                   lastCall, pushVars, rootCancelled, cfgSub, controllers,
                   adapters, mainPc, wg>>

\* The rest of the hourly tick: wm.Sync, blocklist.Sync and arbiter.Sync.
HourlyRest ==
    /\ tasks.hourly = "rest"
    /\ \E cidrs \in WhitelistResponses, records \in SyncResponses :
         /\ whitelist' = NewRanger(cidrs)
         /\ storedBlocklists' = BlocklistsResponse
         /\ scoreDB' = BulkUpsertIpScores(scoreDB, records)
         /\ written' = WrittenAfter(records, "sync")
    /\ tasks' = [tasks EXCEPT !.hourly = "select"]
    /\ UNCHANGED <<deliverVars, restVars, alertThreshold, ScoreCache, days, RecommendCache, taskVars,
                   queueVars, lastCall, pushVars, rootCancelled, cfgSub,
                   controllers, adapters, syncs, nSyncs, mainPc, wg>>

\* An update worker takes a config-update: ProcessUpdate calls
\* SyncSensorConfig.
WorkerConfigUpdate ==
    /\ syncs["worker"].pc = "idle"
    /\ nSyncs < MaxSyncs
    /\ \E response \in SyncAnswers : syncs' = BeginSync("worker", response)
    /\ nSyncs' = nSyncs + 1
    /\ UNCHANGED <<deliverVars, restVars, configVars, storeVars, RecommendCache, taskVars, queueVars,
                   lastCall, pushVars, rootCancelled, cfgSub, controllers,
                   adapters, tasks, mainPc, wg>>

\* The signal handler of main: rootCancel().
RootCancel ==
    /\ ~rootCancelled
    /\ rootCancelled' = TRUE
    /\ UNCHANGED <<deliverVars, restVars, configVars, storeVars, RecommendCache, taskVars, queueVars,
                   lastCall, pushVars, cfgSub, controllers, adapters, syncs,
                   nSyncs, tasks, mainPc, wg>>

\* The log messages being handled by the syslog servers.
Handling == {a \in DOMAIN adapters : adapters[a].handler = "handling"}

\* The syslog server's handler goroutine, `case logParts, ok := <-channel`:
\* a message of the running server is received.  select may take this case
\* whether or not ctx.Done() is closed as well.
HandlerReceive(a) ==
    /\ adapters[a].handler = "select"
    /\ adapters[a].running
    /\ nIngest + Cardinality(Handling) < MaxIngest
    /\ adapters' = [adapters EXCEPT ![a].handler = "handling"]
    /\ UNCHANGED <<deliverVars, restVars, configVars, storeVars, RecommendCache, taskVars, queueVars,
                   lastCall, pushVars, rootCancelled, cfgSub, controllers,
                   syncs, nSyncs, tasks, mainPc, wg>>

\* The handler goroutine with a message: inferSrcDst, ShouldProcessPacket
\* and one evaluationFunc goroutine for the source, one for the destination.
HandlerSpawn(a) ==
    /\ adapters[a].handler = "handling"
    /\ \E pair \in Pairs :
         LET t1 == CHOOSE t \in IdleSlots : \A u \in IdleSlots : t <= u
             t2 == CHOOSE t \in IdleSlots \ {t1} : \A u \in IdleSlots \ {t1} : t <= u
         IN  IF ShouldProcessPacket(pair[1], pair[2])
             THEN /\ evals' = [evals EXCEPT ![t1] = [pc |-> "ShouldBlock", ip |-> pair[1]],
                                            ![t2] = [pc |-> "ShouldBlock", ip |-> pair[2]]]
                  /\ adapters' = [adapters EXCEPT ![a].handler = "select",
                                                  ![a].handed = @ + 1]
             ELSE /\ evals' = evals
                  /\ adapters' = [adapters EXCEPT ![a].handler = "select"]
    /\ nIngest' = nIngest + 1
    /\ UNCHANGED <<deliverVars, restVars, configVars, storeVars, RecommendCache, workers, nUpdates,
                   queueVars, lastCall, pushVars, rootCancelled, cfgSub,
                   controllers, syncs, nSyncs, tasks, mainPc, wg>>

\* The handler goroutine, `case <-ctx.Done(): return`.
HandlerExit(a) ==
    /\ adapters[a].handler = "select"
    /\ Cancelled(a)
    /\ adapters' = [adapters EXCEPT ![a].handler = "done"]
    /\ UNCHANGED <<deliverVars, restVars, configVars, storeVars, RecommendCache, taskVars, queueVars,
                   lastCall, pushVars, rootCancelled, cfgSub, controllers,
                   syncs, nSyncs, tasks, mainPc, wg>>

\* An adapter whose scope is cancelled stops: `<-ctx.Done(); server.Kill()`,
\* server.Wait() returns and with it the goroutine ReloadSubsystems started.
AdapterExit(a) ==
    /\ adapters[a].running
    /\ Cancelled(a)
    /\ adapters' = [adapters EXCEPT ![a].running = FALSE]
    /\ UNCHANGED <<deliverVars, restVars, configVars, storeVars, RecommendCache, taskVars, queueVars,
                   lastCall, pushVars, rootCancelled, cfgSub, controllers,
                   syncs, nSyncs, tasks, mainPc, wg>>

\* A goroutine registered with main's WaitGroup returns: the deferred
\* wg.Done(), which lets main's wg.Wait() return once the counter is zero.
TaskExit(name) ==
    /\ tasks' = [tasks EXCEPT ![name] = "exited"]
    /\ wg' = wg - 1
    /\ mainPc' = IF mainPc = "waiting" /\ wg = 1 THEN "returned" ELSE mainPc

\* main's hourly loop, `case <-rootCtx.Done(): return`.
HourlyExit ==
    /\ tasks.hourly = "select"
    /\ rootCancelled
    /\ TaskExit("hourly")
    /\ UNCHANGED <<deliverVars, restVars, configVars, storeVars, RecommendCache, taskVars, queueVars,
                   lastCall, pushVars, rootCancelled, cfgSub, controllers,
                   adapters, syncs, nSyncs>>

\* main's heartbeat loop, `case <-ticker.C`: uptime.SendHeartbeat begins.
HeartbeatTick ==
    /\ tasks.heartbeat = "select"
    /\ tasks' = [tasks EXCEPT !.heartbeat = "SendHeartbeat"]
    /\ UNCHANGED <<deliverVars, restVars, configVars, storeVars, RecommendCache, taskVars, queueVars,
                   lastCall, pushVars, rootCancelled, cfgSub, controllers,
                   adapters, syncs, nSyncs, mainPc, wg>>

\* uptime.SendHeartbeat returns.
HeartbeatSent ==
    /\ tasks.heartbeat = "SendHeartbeat"
    /\ tasks' = [tasks EXCEPT !.heartbeat = "select"]
    /\ UNCHANGED <<deliverVars, restVars, configVars, storeVars, RecommendCache, taskVars, queueVars,
                   lastCall, pushVars, rootCancelled, cfgSub, controllers,
                   adapters, syncs, nSyncs, mainPc, wg>>

\* main's heartbeat loop, `case <-rootCtx.Done(): return`.
HeartbeatExit ==
    /\ tasks.heartbeat = "select"
    /\ rootCancelled
    /\ TaskExit("heartbeat")
    /\ UNCHANGED <<deliverVars, restVars, configVars, storeVars, RecommendCache, taskVars, queueVars,
                   lastCall, pushVars, rootCancelled, cfgSub, controllers,
                   adapters, syncs, nSyncs>>

\* StartUpdateWebSocketClient: dialer.Dial fails, the client backs off.
DialFailed ==
    /\ tasks.updates = "Dial"
    /\ tasks' = [tasks EXCEPT !.updates = "Backoff"]
    /\ UNCHANGED <<deliverVars, restVars, configVars, storeVars, RecommendCache, taskVars, queueVars,
                   lastCall, pushVars, rootCancelled, cfgSub, controllers,
                   adapters, syncs, nSyncs, mainPc, wg>>

\* StartUpdateWebSocketClient: dialer.Dial succeeds; SetConn, the keepalive
\* and StartListening, then the wait for the connection to be dropped.
DialConnected ==
    /\ tasks.updates = "Dial"
    /\ tasks' = [tasks EXCEPT !.updates = "Connected"]
    /\ UNCHANGED <<deliverVars, restVars, configVars, storeVars, RecommendCache, taskVars, queueVars,
                   lastCall, pushVars, rootCancelled, cfgSub, controllers,
                   adapters, syncs, nSyncs, mainPc, wg>>

\* StartUpdateWebSocketClient: `updater.GetConn() == nil`, the connection
\* was dropped; the client backs off.
Disconnected ==
    /\ tasks.updates = "Connected"
    /\ tasks' = [tasks EXCEPT !.updates = "Backoff"]
    /\ UNCHANGED <<deliverVars, restVars, configVars, storeVars, RecommendCache, taskVars, queueVars,
                   lastCall, pushVars, rootCancelled, cfgSub, controllers,
                   adapters, syncs, nSyncs, mainPc, wg>>

\* StartUpdateWebSocketClient: time.Sleep(currentBackoff) is over, the loop
\* dials again.
BackoffOver ==
    /\ tasks.updates = "Backoff"
    /\ tasks' = [tasks EXCEPT !.updates = "Dial"]
    /\ UNCHANGED <<deliverVars, restVars, configVars, storeVars, RecommendCache, taskVars, queueVars,
                   lastCall, pushVars, rootCancelled, cfgSub, controllers,
                   adapters, syncs, nSyncs, mainPc, wg>>

\* main: `<-rootCtx.Done()` returns and wg.Wait() begins.
MainWait ==
    /\ mainPc = "running"
    /\ rootCancelled
    /\ mainPc' = IF wg = 0 THEN "returned" ELSE "waiting"
    /\ UNCHANGED <<deliverVars, restVars, configVars, storeVars, RecommendCache, taskVars, queueVars,
                   lastCall, pushVars, rootCancelled, cfgSub, controllers,
                   adapters, syncs, nSyncs, tasks, wg>>

InitSup ==
    /\ InitCommon
    /\ whitelist = {}
    /\ alertThreshold = 50
    /\ InitStore([ip \in IPs |-> BootstrapRow])

\* The supervisor with its two callers and the adapters it starts.
NextSup ==
    \/ HourlyTick
    \/ HourlyRest
    \/ WorkerConfigUpdate
    \/ \E c \in SyncCallers : SyncCompareSniff(c)
    \/ \E c \in SyncCallers : SyncCompareSyslog(c)
    \/ \E c \in SyncCallers : SyncWriteSniff(c)
    \/ \E c \in SyncCallers : SyncWriteSyslog(c)
    \/ \E c \in SyncCallers : ReloadTraffic(c)
    \/ \E c \in SyncCallers : ReloadSyslog(c)
    \/ \E c \in SyncCallers : SyncThreshold(c)
    \/ \E a \in DOMAIN adapters : HandlerReceive(a)
    \/ \E a \in DOMAIN adapters : HandlerSpawn(a)
    \/ \E a \in DOMAIN adapters : HandlerExit(a)
    \/ \E a \in DOMAIN adapters : AdapterExit(a)
    \/ RootCancel
    \/ HourlyExit

SpecSup == InitSup /\ [][NextSup]_vars

\* main from the start of its three goroutines to its return: the hourly
\* loop with the reloads it causes, the heartbeat loop, the update client.
HourlyStep ==
    \/ HourlyTick
    \/ SyncCompareSniff("hourly")
    \/ SyncCompareSyslog("hourly")
    \/ SyncWriteSniff("hourly")
    \/ SyncWriteSyslog("hourly")
    \/ ReloadTraffic("hourly")
    \/ ReloadSyslog("hourly")
    \/ SyncThreshold("hourly")
    \/ HourlyRest

HeartbeatStep == HeartbeatTick \/ HeartbeatSent

UpdateClientStep == DialFailed \/ DialConnected \/ Disconnected \/ BackoffOver

NextShutdown ==
    \/ HourlyStep
    \/ HourlyExit
    \/ HeartbeatStep
    \/ HeartbeatExit
    \/ UpdateClientStep
    \/ \E a \in DOMAIN adapters : AdapterExit(a)
    \/ RootCancel
    \/ MainWait

\* Every goroutine that can take a step takes one eventually, and a loop
\* that selects on rootCtx.Done() takes that case once it stays ready.
FairShutdown ==
    /\ WF_vars(HourlyStep)
    /\ WF_vars(HeartbeatStep)
    /\ WF_vars(UpdateClientStep)
    /\ WF_vars(\E a \in DOMAIN adapters : AdapterExit(a))
    /\ WF_vars(MainWait)
    /\ SF_vars(HourlyExit)
    /\ SF_vars(HeartbeatExit)

SpecShutdown == InitSup /\ [][NextShutdown]_vars /\ FairShutdown

\* C13: once the root cancellation has fired, the scope of every running
\* ingest adapter is cancelled, adapters started by a reload included.
RootCancelReachesAdapters ==
    rootCancelled =>
        \A a \in DOMAIN adapters : adapters[a].running => Cancelled(a)

\* No SyncSensorConfig call, and so no reload, is in progress.
Quiescent == \A c \in SyncCallers : syncs[c].pc = "idle"

\* The adapters of a subsystem whose scope is not cancelled.
Live(kind) ==
    {a \in DOMAIN adapters : adapters[a].kind = kind /\ ~Cancelled(a)}

\* C15: when every config sync and reload has completed, each subsystem has
\* exactly one un-cancelled adapter if cfg enables it and none otherwise,
\* and the supervisor stores the token of that adapter iff cfg enables it;
\* a reload of a subsystem that runs and stays enabled leaves it running.
ReloadSettles ==
    /\ [](  (Quiescent /\ ~rootCancelled) =>
              \A kind \in Subsystems :
                  /\ Cardinality(Live(kind)) = (IF Enabled(kind) THEN 1 ELSE 0)
                  /\ (Token(kind) # 0) <=> Enabled(kind)
                  /\ Token(kind) # 0 => Token(kind) \in Live(kind) )
    /\ [][ ~rootCancelled' =>
              \A kind \in Subsystems :
                  (Live(kind) # {} /\ Enabled(kind) /\ Live(kind)' # Live(kind))
                      => Cardinality(Live(kind)') = 1 ]_vars

\* Two overlapping config syncs have both reloaded, and the second reload
\* restarted a subsystem that was running already.
ReloadedTwice ==
    /\ Quiescent
    /\ ~rootCancelled
    /\ nSyncs = 2
    /\ \E kind \in Subsystems :
         /\ Enabled(kind)
         /\ \E a \in DOMAIN adapters :
              adapters[a].kind = kind /\ adapters[a].cancelled

\* A reload has stopped the adapter: its token was fired and cleared, no
\* token of its subsystem is stored, and the adapter has returned.
Stopped(a) ==
    /\ adapters[a].cancelled
    /\ ~adapters[a].running
    /\ Token(adapters[a].kind) = 0

\* C16: an adapter that a disabling reload has stopped hands no further
\* (src, dst) pair to EvaluateAndAct.
NoEvaluationAfterStop ==
    [][ \A a \in DOMAIN adapters :
            Stopped(a) => adapters'[a].handed = adapters[a].handed ]_vars

\* The goroutines registered with main's WaitGroup that have not returned.
Registered == {name \in DOMAIN tasks : tasks[name] # "exited"}

\* C12: after the root cancellation every goroutine registered with main's
\* WaitGroup returns, wg.Wait() completes and main returns.
ShutdownCompletes ==
    rootCancelled ~> (Registered = {} /\ mainPc = "returned")

\* The adapters whose goroutine has not returned.
RunningAdapters == {a \in DOMAIN adapters : adapters[a].running}

\* C14: every running adapter that a reload started is counted by main's
\* WaitGroup next to the registered goroutines, so that wg.Wait() cannot
\* return while one of them runs.
ReloadAdaptersJoinable ==
    wg >= Cardinality(Registered) + Cardinality(RunningAdapters)

\* ------------------------------------------- the decision engine on its own

\* The snapshots /sync/blocklist may answer with.
BlocklistSnapshots ==
    {<<>>,
     BlocklistsResponse,
     <<Blocklist("BL1", TRUE, FALSE, 40, 40), Blocklist("BL2", TRUE, TRUE, 70, 30)>>,
     <<Blocklist("BL2", TRUE, TRUE, 70, 30), Blocklist("BL3", FALSE, TRUE, 50, 50)>>}

\* blocklist.Sync: the stored snapshot is replaced under mu.
SyncBlocklists ==
    /\ \E blocklists \in BlocklistSnapshots :
         /\ blocklists # storedBlocklists
         /\ storedBlocklists' = blocklists
    /\ UNCHANGED <<extVars, whitelist, alertThreshold, storeVars, RecommendCache,
                   taskVars, queueVars, lastCall>>

\* What sqlite.Lookup hands back when it fails: a nil *int32 and the error,
\* for a score cache that is not initialised and for a store error alike.
NilScore == "nil"
LookupFailures == {"score cache not initialized", "store error"}

\* ShouldBlock's `return decisions, *score`: a nil score cannot be
\* dereferenced, the goroutine panics and no recover is in place.
ShouldBlockReturn(task, decisions, score) ==
    IF score = NilScore
    THEN [pc |-> "panic", ip |-> task.ip]
    ELSE [pc |-> "SendAlert", ip |-> task.ip, score |-> score, decisions |-> decisions]

\* ShouldBlock's `if err != nil` branch after sqlite.Lookup.
ErrorDecision(err) ==
    [Block |-> FALSE, Reason |-> <<"Error retrieving score", err>>, Blocklist |-> "N/A"]

\* decisions, score := recommender.ShouldBlock(ip), with sqlite.Lookup
\* failing.
EvalLookupFails(t) ==
    /\ evals[t].pc = "ShouldBlock"
    /\ \E err \in LookupFailures :
         evals' = [evals EXCEPT ![t] =
                     ShouldBlockReturn(evals[t], <<ErrorDecision(err)>>, NilScore)]
    /\ UNCHANGED <<extVars, configVars, storeVars, RecommendCache, workers,
                   nIngest, nUpdates, queueVars, lastCall>>

\* A goroutine has panicked: the process is gone.
Crashed == \E t \in 1..MaxEvals : evals[t].pc = "panic"

\* The rows the store may hold for an address after bootstrap.
StoreRows == {NoRow, Row(35, 0), BootstrapRow}

InitDecide ==
    /\ InitCommon
    /\ whitelist = {}
    /\ alertThreshold = 50
    /\ \E rows \in [IPs -> StoreRows] : InitStore(rows)

NextDecide ==
    /\ ~Crashed
    /\ \/ SyncBlocklists
       \/ Ingest
       \/ \E t \in 1..MaxEvals : EvalShouldBlock(t)
       \/ \E t \in 1..MaxEvals : EvalLookupFails(t)

SpecDecide == InitDecide /\ [][NextDecide]_vars

\* C17: ShouldBlock returns to the evaluation whether or not the reputation
\* lookup fails, and after a failed lookup it returns exactly one decision,
\* not blocking and naming "N/A"; the process goes on.
LookupFailureIsHandled ==
    [][ \A t \in 1..MaxEvals :
            (evals[t].pc = "ShouldBlock" /\ evals'[t] # evals[t])
                => /\ evals'[t].pc = "SendAlert"
                   /\ (\E j \in DOMAIN evals'[t].decisions :
                            evals'[t].decisions[j].Blocklist = "N/A")
                        => /\ Len(evals'[t].decisions) = 1
                           /\ ~evals'[t].decisions[1].Block ]_vars

\* Whether a blocklist covers an address of the class, and its threshold
\* for the class.
Includes(bl, isPrivate) ==
    IF isPrivate THEN bl.ShouldIncludePrivateIPs ELSE bl.ShouldIncludePublicIPs

ClassThreshold(bl, isPrivate) ==
    IF isPrivate THEN bl.NfgScoreThresholdPrivateIPs ELSE bl.NfgScoreThresholdPublicIPs

\* The blocklists a list of decisions blocks for.
BlockedBy(decisions) ==
    {decisions[j].Blocklist : j \in {k \in DOMAIN decisions : decisions[k].Block}}

\* C19: for a scored address, ShouldBlock emits a blocking decision naming
\* a blocklist of the snapshot iff the blocklist includes the class of the
\* address and the score reaches the threshold of that class.
DecisionsFollowPolicy ==
    [][ \A t \in 1..MaxEvals :
            (evals[t].pc = "ShouldBlock" /\ evals'[t].pc = "SendAlert")
                => \A i \in DOMAIN storedBlocklists :
                     LET bl == storedBlocklists[i]
                         isPrivate == privateIpCheck(evals[t].ip)
                     IN  (bl.Name \in BlockedBy(evals'[t].decisions))
                             <=> /\ Includes(bl, isPrivate)
                                 /\ evals'[t].score >= ClassThreshold(bl, isPrivate) ]_vars

\* A private address was scored against a snapshot with a list that leaves
\* private addresses out and a list that covers them: blocked by the one
\* that covers them only.
PrivateBlockedByCoveringList ==
    \E t \in 1..MaxEvals :
        /\ evals[t].pc = "SendAlert"
        /\ privateIpCheck(evals[t].ip)
        /\ BlockedBy(evals[t].decisions) = {"BL2"}
        /\ storedBlocklists[1].Name = "BL1"
        /\ evals[t].score >= storedBlocklists[1].NfgScoreThresholdPrivateIPs

\* ------------------------------------------------------------- delivery

\* How the arbiter may answer a call: anything until it has recovered, a
\* 200 to the first POST from then on.
ArbiterPlans ==
    IF arbiterAccepts
    THEN {plan \in ResponsePlans : plan.failures = 0 /\ plan.final = StatusOK}
    ELSE ResponsePlans

\* The arbiter recovers for good.
ArbiterRecovers ==
    /\ ~arbiterAccepts
    /\ arbiterAccepts' = TRUE
    /\ UNCHANGED <<pushVars, supVars, restVars, outbox, lastAct, configVars, storeVars,
                   RecommendCache, taskVars, queueVars, lastCall>>

\* The record of a call of recommend: the address, what the call returned
\* and the queue item it added (0 when it added none).
Report(ip, r, id) == [ip |-> ip, ret |-> r.ret, id |-> IF r.queued THEN id ELSE 0]

AlertDue_above(score) == score > alertThreshold

\* if score >= cfg.AlertThreshold
AlertDue(score) == score >= alertThreshold

\* The record of one EvaluateAndAct: the address, its score and the alert
\* threshold, how many blocking decisions there were, whether the dedup key
\* was found, and how many alerts and recommendations were submitted.
Act(ip, score, blocks, found, alerts, recommends) ==
    [ip |-> ip, score |-> score, threshold |-> alertThreshold, blocks |-> Len(blocks),
     found |-> found, alerts |-> alerts, recommends |-> recommends]

\* What EvaluateAndAct can see of a submission call: what it returned and
\* whether it queued an item.
Outcome(r) == [ret |-> r.ret, queued |-> r.queued]

\* EvaluateAndAct(cfg, ipType, ip, relatedIp, source) in one piece:
\* ShouldBlock, SendAlert for a score at or above the alert threshold, the
\* filter of the blocking decisions, the dedup check, RecommendCache.Add and
\* recommend, whose returned error is dropped.
EvaluateAndAct(ip) ==
    /\ nextId <= MaxItems
    /\ Len(outbox) < MaxItems
    /\ LET score == Lookup(ip)
           blocks == blocksToReport(ShouldBlock(ip, score))
           key == generateCacheKey(ip, blocks)
           found == Len(blocks) > 0 /\ CacheGetFound(RecommendCache, key)
           reports == Len(blocks) > 0 /\ ~found
       IN  /\ ScoreCache' = CacheAfterLookup(ip)
           /\ \E a \in {Outcome(SendAlert(plan)) : plan \in ArbiterPlans},
                 r \in {Outcome(recommend(plan)) : plan \in ArbiterPlans} :
                LET alertQueued == AlertDue(score) /\ a.queued
                    queued == reports /\ r.queued
                    id == IF alertQueued THEN nextId + 1 ELSE nextId
                    withAlert == IF alertQueued
                                 THEN Append(rq_items, NewItem(nextId, "alert", ip, <<>>))
                                 ELSE rq_items
                IN  /\ (alertQueued /\ queued) => id <= MaxItems
                    /\ rq_items' = IF queued
                                   THEN Append(withAlert,
                                               NewItem(id, "recommendation", ip, key.decisions))
                                   ELSE withAlert
                    /\ hist' = [i \in ItemIds |->
                                  IF (alertQueued /\ i = nextId) \/ (queued /\ i = id)
                                  THEN [state |-> "queued", tries |-> 0]
                                  ELSE hist[i]]
                    /\ nextId' = nextId + (IF alertQueued THEN 1 ELSE 0)
                                        + (IF queued THEN 1 ELSE 0)
                    /\ outbox' = IF reports THEN Append(outbox, Report(ip, r, id)) ELSE outbox
           /\ RecommendCache' =
                  IF reports THEN CacheCounted(CacheAfterAdd(RecommendCache, key), key)
                  ELSE IF Len(blocks) > 0 THEN CacheAfterGet(RecommendCache, key)
                  ELSE RecommendCache
           /\ lastAct' = Act(ip, score, blocks, found,
                             IF AlertDue(score) THEN 1 ELSE 0,
                             IF reports THEN 1 ELSE 0)
    /\ UNCHANGED <<pushVars, supVars, restVars, arbiterAccepts, configVars, scoreDB, written,
                   days, taskVars, lastCall>>

\* One tick of ProcessQueue against this arbiter: once it has recovered
\* every re-submission is accepted.
ProcessQueueTickArbiter ==
    /\ ProcessQueueTick
    /\ arbiterAccepts => \A id \in ReadyIds : hist'[id].state = "accepted"

\* After bootstrap, with an alert threshold no score reaches.
InitDeliver ==
    /\ InitCommon
    /\ whitelist = {}
    /\ alertThreshold = 100
    /\ InitStore([ip \in IPs |-> BootstrapRow])

\* The evaluator with the drain loop of the retry queue running beside it.
NextDeliver ==
    \/ \E ip \in IPs : EvaluateAndAct(ip)
    \/ ProcessQueueTickArbiter
    \/ Elapse
    \/ ArbiterRecovers

\* Traffic keeps arriving, time passes, the drain loop ticks and the
\* arbiter recovers.
FairDeliver ==
    /\ WF_vars(\E ip \in IPs : EvaluateAndAct(ip))
    /\ WF_vars(ProcessQueueTickArbiter)
    /\ WF_vars(Elapse)
    /\ WF_vars(ArbiterRecovers)

SpecDeliver == InitDeliver /\ [][NextDeliver]_vars /\ FairDeliver

\* The arbiter answered 200 to the recommendation of a call of recommend:
\* to the call itself, or to a re-submission of the item it queued.
Accepted(report) ==
    \/ report.id = 0 /\ report.ret = "nil"
    \/ report.id # 0 /\ hist[report.id].state = "accepted"

\* C18: every recommendation the evaluator initiates (its dedup key
\* inserted, recommend called) is eventually accepted with a 200 by an
\* arbiter that eventually accepts submissions.
DeliveredAtLeastOnce ==
    \A k \in 1..MaxItems :
        (Len(outbox) >= k) ~> (Len(outbox) >= k /\ Accepted(outbox[k]))

\* ------------------------------------------------ what an evaluation submits

\* The alert thresholds of the runs: the default, and the score of the rows
\* of the store.
AlertThresholds == {50, 60}

InitAct ==
    /\ InitCommon
    /\ whitelist = {}
    /\ alertThreshold \in AlertThresholds
    /\ \E rows \in [IPs -> StoreRows] : InitStore(rows)

NextAct ==
    \/ \E ip \in IPs : EvaluateAndAct(ip)
    \/ SyncBlocklists

SpecAct == InitAct /\ [][NextAct]_vars

\* C27: EvaluateAndAct submits exactly one alert when the score is at or
\* above the alert threshold and none below it, whatever the decisions and
\* the dedup cache say, and it submits no recommendation when no decision
\* blocks.
AlertIffThreshold ==
    lastAct.ip \in IPs =>
        /\ lastAct.score >= lastAct.threshold => lastAct.alerts = 1
        /\ lastAct.score < lastAct.threshold => lastAct.alerts = 0
        /\ lastAct.blocks = 0 => lastAct.recommends = 0

\* An alert went out from an evaluation whose dedup key was found: no
\* recommendation, one alert.
AlertOnDuplicate ==
    /\ lastAct.ip \in IPs
    /\ lastAct.found
    /\ lastAct.alerts = 1
    /\ lastAct.recommends = 0
    /\ lastAct.score = lastAct.threshold

\* ------------------------------------------------------------ the dedup key

\* The blocking decisions of the lists handed to generateCacheKey: for a
\* score of 60, from a blocklist "0BL1" with threshold 4, from "BL1" with
\* threshold 40 and from "BL2" with threshold 40.
KeyDecisions ==
    {BlockDecision(60, 4, "0BL1"), BlockDecision(60, 40, "BL1"), BlockDecision(60, 40, "BL2")}

DecisionInputs == UNION {[1..n -> KeyDecisions] : n \in 0..MaxDecisions}

\* The reorderings of a list of n elements.
Orders(n) == {p \in [1..n -> 1..n] : \A i, j \in 1..n : p[i] = p[j] => i = j}

\* A caller holds the same decisions in another order.
Reorder ==
    /\ \E p \in Orders(Len(keyArg)) :
         /\ keyArg' = [i \in 1..Len(keyArg) |-> keyArg[p[i]]]
         /\ keyArg' # keyArg
    /\ UNCHANGED <<pushVars, supVars, deliverVars, wsVars, ingressVars, wlVars, auxVars, keyCalls, configVars,
                   storeVars, RecommendCache, taskVars, queueVars, lastCall>>

\* key := generateCacheKey(ip, decisions); the sort leaves the caller's
\* slice sorted.
CallGenerateCacheKey ==
    /\ Len(keyCalls) < MaxKeyCalls
    /\ LET key == generateCacheKey(PublicIP, keyArg)
       IN  /\ keyCalls' = Append(keyCalls, [decisions |-> keyArg, key |-> key])
           /\ keyArg' = key.decisions
    /\ UNCHANGED <<pushVars, supVars, deliverVars, wsVars, ingressVars, wlVars, auxVars, configVars, storeVars,
                   RecommendCache, taskVars, queueVars, lastCall>>

InitKey ==
    /\ InitState
    /\ Booted
    /\ keyArg \in DecisionInputs
    /\ purge = NoPurge
    /\ updateChan = <<>>
    /\ whitelist = {}
    /\ alertThreshold = 50
    /\ InitStore([ip \in IPs |-> NoRow])

NextKey ==
    \/ Reorder
    \/ CallGenerateCacheKey

SpecKey == InitKey /\ [][NextKey]_vars

\* C21: generateCacheKey returns the same dedup key for every order of the
\* same decisions.
KeyIgnoresOrder ==
    \A i, j \in DOMAIN keyCalls : keyCalls[i].key = keyCalls[j].key

\* ------------------------------------------ the whitelist read and replaced

\* What neither Sync nor IsWhitelisted touches.
notWl == <<pushVars, supVars, deliverVars, keyVars, wsVars, ingressVars, auxVars, storedBlocklists,
           alertThreshold, storeVars, RecommendCache, taskVars, queueVars, lastCall>>

\* The lists /sync/whitelist answers a replace with.
ReplaceLists ==
    {<<"9.9.9.9/32", "10.0.0.0/8">>, <<"not-a-cidr", "10.0.0.0/8">>,
     <<"2001:db8::/32", "9.9.9.9/32">>}

\* The strings IsWhitelisted is asked about, and netaddr.ParseIP on them.
QueryIPs == IPs \cup {"2001:db8::1", "not-an-ip"}
ParsesAsIP(ipStr) == ipStr # "not-an-ip"

WhileBuilding_inPlace(current, building) == building

\* wm.ranger while Sync fills the trie it made with NewPCTrieRanger: Sync
\* fills a local, wm.ranger is not touched.
WhileBuilding(current, building) == current

\* Sync got its answer and made an empty trie.
WlSyncStart(c) ==
    /\ wlSyncs[c].pc = "idle"
    /\ Len(published) + Cardinality({d \in WlCallers : wlSyncs[d].pc # "idle"}) <= MaxReplaces
    /\ \E cidrs \in ReplaceLists :
         wlSyncs' = [wlSyncs EXCEPT ![c] = [pc |-> "range", cidrs |-> cidrs, i |-> 1,
                                            ranger |-> {}]]
    /\ UNCHANGED <<whitelist, wlRead, published, notWl>>

\* One turn of `for _, cidr := range response.CIDRs`: net.ParseCIDR, an
\* invalid entry skipped, a valid one inserted.
WlSyncInsert(c) ==
    /\ wlSyncs[c].pc = "range"
    /\ wlSyncs[c].i <= Len(wlSyncs[c].cidrs)
    /\ LET cidr == wlSyncs[c].cidrs[wlSyncs[c].i]
           ranger == IF cidr \in ValidCIDRs
                     THEN wlSyncs[c].ranger \cup {cidr}
                     ELSE wlSyncs[c].ranger
       IN  /\ wlSyncs' = [wlSyncs EXCEPT ![c].i = @ + 1, ![c].ranger = ranger]
           /\ whitelist' = WhileBuilding(whitelist, ranger)
    /\ UNCHANGED <<wlRead, published, notWl>>

\* wm.mutex.Lock(); wm.ranger = ranger; wm.mutex.Unlock()
WlSyncSwap(c) ==
    /\ wlSyncs[c].pc = "range"
    /\ wlSyncs[c].i > Len(wlSyncs[c].cidrs)
    /\ whitelist' = wlSyncs[c].ranger
    /\ published' = Append(published,
                           [cidrs |-> wlSyncs[c].cidrs, ranger |-> wlSyncs[c].ranger])
    /\ wlSyncs' = [wlSyncs EXCEPT ![c] = [pc |-> "idle"]]
    /\ UNCHANGED <<wlRead, notWl>>

\* IsWhitelisted(ipStr): netaddr.ParseIP; a string that is no address is
\* answered false at once.  `since` remembers how many tries had been
\* swapped in when the call began.
WlReadParse ==
    /\ wlRead.pc \in {"idle", "returned"}
    /\ \E ipStr \in QueryIPs :
         wlRead' = IF ParsesAsIP(ipStr)
                   THEN [pc |-> "Lock", ip |-> ipStr, since |-> Len(published)]
                   ELSE [pc |-> "returned", ip |-> ipStr, since |-> Len(published),
                         ranger |-> {}, ok |-> FALSE]
    /\ UNCHANGED <<whitelist, wlSyncs, published, notWl>>

\* wm.mutex.Lock(); ranger := wm.ranger; wm.mutex.Unlock()
WlReadLock ==
    /\ wlRead.pc = "Lock"
    /\ wlRead' = [pc |-> "Contains", ip |-> wlRead.ip, since |-> wlRead.since,
                  ranger |-> whitelist]
    /\ UNCHANGED <<whitelist, wlSyncs, published, notWl>>

\* ok, err := ranger.Contains(ip); return ok
WlReadContains ==
    /\ wlRead.pc = "Contains"
    /\ wlRead' = [pc |-> "returned", ip |-> wlRead.ip, since |-> wlRead.since,
                  ranger |-> wlRead.ranger, ok |-> Contains(wlRead.ranger, wlRead.ip)]
    /\ UNCHANGED <<whitelist, wlSyncs, published, notWl>>

InitWl ==
    /\ InitCommon
    /\ whitelist = {}
    /\ alertThreshold = 50
    /\ InitStore([ip \in IPs |-> NoRow])

NextWl ==
    \/ \E c \in WlCallers : WlSyncStart(c)
    \/ \E c \in WlCallers : WlSyncInsert(c)
    \/ \E c \in WlCallers : WlSyncSwap(c)
    \/ WlReadParse
    \/ WlReadLock
    \/ WlReadContains

SpecWl == InitWl /\ [][NextWl]_vars

\* The address lies in one of the entries of the list that parse as a CIDR.
InValidCidrOf(cidrs, ip) ==
    \E i \in DOMAIN cidrs : cidrs[i] \in ValidCIDRs /\ ip \in CidrMembers(cidrs[i])

\* C29: the trie an IsWhitelisted call works on is one that was swapped in
\* whole, the one in place when the call began or a later one; a call made
\* after the last replace, with none in progress, answers true iff the
\* address lies in a validly parsed CIDR of that list; and a string that is
\* no address is answered false.
WhitelistSwapIsAtomic ==
    /\ wlRead.pc \in {"Contains", "returned"} /\ ParsesAsIP(wlRead.ip)
          => \E k \in wlRead.since..Len(published) : wlRead.ranger = published[k].ranger
    /\ wlRead.pc = "returned" /\ ParsesAsIP(wlRead.ip) /\ wlRead.since = Len(published)
          => (wlRead.ok <=> InValidCidrOf(published[Len(published)].cidrs, wlRead.ip))
    /\ wlRead.pc = "returned" /\ ~ParsesAsIP(wlRead.ip) => ~wlRead.ok

\* A call that began before a replace of two entries and took the trie
\* while the second replace was under way has answered from a whole list
\* that has an invalid entry.
ReadDuringReplace ==
    /\ wlRead.pc = "returned"
    /\ ParsesAsIP(wlRead.ip)
    /\ wlRead.since < Len(published)
    /\ \E c \in WlCallers : wlSyncs[c].pc = "range" /\ wlSyncs[c].i = 2
    /\ wlRead.ranger = {"10.0.0.0/8"}
    /\ wlRead.ok

\* ------------------------------------------------------ the ingress channel

\* What the read loop leaves alone between a frame and the channel.
notIngress == <<received, supVars, deliverVars, keyVars, wsVars, wlVars, auxVars, configVars, storeVars,
                RecommendCache, taskVars, queueVars, lastCall>>

ChannelFull_never(chan) == FALSE

\* `case updateChan <- data` cannot proceed: the buffer of the channel is
\* full.
ChannelFull(chan) == Len(chan) >= updateChanCap

\* conn.ReadMessage() returns a frame and json.Unmarshal decodes it.
IngressRead ==
    /\ ingress.pc = "ReadMessage"
    /\ ingress.frames < MaxFrames
    /\ \E score \in ArrivingScores :
         ingress' = [pc |-> "select", frames |-> ingress.frames + 1,
                     dropped |-> ingress.dropped,
                     data |-> [Ip |-> PublicIP, Score |-> score, Timestamp |-> 0]]
    /\ UNCHANGED <<updateChan, processed, notIngress>>

\* conn.ReadMessage() returns a frame json.Unmarshal rejects: `continue`.
IngressMalformed ==
    /\ ingress.pc = "ReadMessage"
    /\ ingress.frames < MaxFrames
    /\ ingress' = [ingress EXCEPT !.frames = @ + 1]
    /\ UNCHANGED <<updateChan, processed, notIngress>>

\* select { case updateChan <- data: default: }: the update is queued, or
\* dropped with a warning when the channel is full; the loop goes on to the
\* next frame.
IngressSelect ==
    /\ ingress.pc = "select"
    /\ IF ChannelFull(updateChan)
       THEN /\ UNCHANGED updateChan
            /\ ingress' = [pc |-> "ReadMessage", frames |-> ingress.frames,
                           dropped |-> ingress.dropped + 1]
       ELSE /\ updateChan' = Append(updateChan, ingress.data)
            /\ ingress' = [pc |-> "ReadMessage", frames |-> ingress.frames,
                           dropped |-> ingress.dropped]
    /\ UNCHANGED <<processed, notIngress>>

\* A burst has left the channel one short of full, the workers not yet
\* scheduled.
Burst == [i \in 1..(updateChanCap - 1) |-> [Ip |-> PublicIP, Score |-> 10, Timestamp |-> 0]]

InitIngress ==
    /\ InitState
    /\ Booted
    /\ keyArg = <<>>
    /\ purge = NoPurge
    /\ updateChan = Burst
    /\ whitelist = {}
    /\ alertThreshold = 50
    /\ InitStore([ip \in IPs |-> IF ip = PublicIP THEN BootstrapRow ELSE NoRow])

NextIngress ==
    \/ IngressRead
    \/ IngressMalformed
    \/ IngressSelect
    \/ WorkerReceive
    \/ \E w \in 1..numWorkers : WorkerUpsert(w)
    \/ \E w \in 1..numWorkers : WorkerRemove(w)
    \/ \E w \in 1..numWorkers : WorkerPurge(w)

SpecIngress == InitIngress /\ [][NextIngress]_vars

\* C25: the update channel never holds more than 100 updates, and the read
\* loop never blocks on it: at the send it can always take its step, which
\* takes it to the next frame, and with the channel full that step drops
\* the update and leaves the channel as it is.
ChannelNeverBlocks ==
    /\ [](Len(updateChan) <= 100)
    /\ [](ingress.pc = "select" => ENABLED IngressSelect)
    /\ [][ ingress.pc = "select" /\ ingress' # ingress
             => /\ ingress'.pc = "ReadMessage"
                /\ Len(updateChan) = 100
                     => updateChan' = updateChan /\ ingress'.dropped = ingress.dropped + 1
                /\ Len(updateChan) < 100
                     => updateChan' = Append(updateChan, ingress.data) ]_vars

\* An update has been dropped at a full channel, and the read loop is at the
\* next frame.
DroppedAtFullChannel ==
    /\ ingress.dropped >= 1
    /\ ingress.pc = "ReadMessage"
    /\ Len(updateChan) = updateChanCap

\* ------------------------------------------------- processing the updates

\* Update.Type of the frames the arbiter pushes; "other" is a kind
\* ProcessUpdate does not know.
UpdateKinds ==
    {"score-update", "blocklist-update", "whitelist-update", "config-update", "other"}

\* The alert thresholds GET /sync answers with.
SyncedThresholds == {50, 70}

\* conn.ReadMessage() returns a frame of any kind that json.Unmarshal
\* decodes; `parses` tells whether the Data of a score-update parses as a
\* ScoreUpdate.
IngressReadAny ==
    /\ ingress.pc = "ReadMessage"
    /\ ingress.frames < MaxFrames
    /\ \E kind \in UpdateKinds, parses \in BOOLEAN :
         /\ kind # "score-update" => parses
         /\ ingress' = [pc |-> "select", frames |-> ingress.frames + 1,
                        dropped |-> ingress.dropped,
                        data |-> [Type |-> kind, parses |-> parses, Ip |-> PublicIP,
                                  Score |-> 10, Timestamp |-> 0]]
    /\ UNCHANGED <<updateChan, processed, notIngress>>

Failed_never(err) == FALSE

\* if err != nil { ...; return }
Failed(err) == err # "nil"

\* An update ProcessUpdate has nothing to apply from: a kind it does not
\* know, data that does not parse, an upsert or a re-pull that failed.
NothingToApply(update, err) ==
    \/ update.Type = "other"
    \/ ~update.parses
    \/ err = "error"

\* The record of an update given to ProcessUpdate: its kind, what the
\* upsert or re-pull returned, and how many updates had nothing to apply.
Processed(update, err) ==
    [Type |-> update.Type, parses |-> update.parses, err |-> err,
     n |-> processed.n + 1,
     failures |-> processed.failures + (IF NothingToApply(update, err) THEN 1 ELSE 0)]

\* `for update := range updateChan` and ProcessUpdate in one piece, for
\* GET /sync answers that keep the subsystems as they are.  `err` is what
\* the upsert or the re-pull of the update returns.
ProcessUpdate ==
    /\ updateChan # <<>>
    /\ updateChan' = Tail(updateChan)
    /\ LET update == Head(updateChan)
       IN  \E err \in {"nil", "error"} :
             IF update.Type = "score-update"
             THEN IF ~update.parses \/ Failed(err)
                  THEN /\ processed' = Processed(update, err)
                       /\ UNCHANGED <<configVars, storeVars, RecommendCache>>
                  ELSE /\ scoreDB' = [scoreDB EXCEPT ![update.Ip] = RowOf(ScoreRecord(update))]
                       /\ ScoreCache' = [ScoreCache EXCEPT ![update.Ip] = NoEntry]
                       /\ RecommendCache' =
                              removeRecommendCacheEntriesByIP(RecommendCache, update.Ip)
                       /\ written' = [written EXCEPT ![update.Ip] =
                                        Written(@.seq + 1, "push", update.Score, days)]
                       /\ processed' = Processed(update, err)
                       /\ UNCHANGED <<configVars, days>>
             ELSE IF update.Type = "blocklist-update"
             THEN IF Failed(err)
                  THEN /\ processed' = Processed(update, err)
                       /\ UNCHANGED <<configVars, storeVars, RecommendCache>>
                  ELSE /\ \E blocklists \in BlocklistSnapshots :
                            storedBlocklists' = blocklists
                       /\ RecommendCache' = <<>>
                       /\ processed' = Processed(update, err)
                       /\ UNCHANGED <<whitelist, alertThreshold, storeVars>>
             ELSE IF update.Type = "whitelist-update"
             THEN IF Failed(err)
                  THEN /\ processed' = Processed(update, err)
                       /\ UNCHANGED <<configVars, storeVars, RecommendCache>>
                  ELSE /\ \E cidrs \in WhitelistResponses : whitelist' = NewRanger(cidrs)
                       /\ processed' = Processed(update, err)
                       /\ UNCHANGED <<storedBlocklists, alertThreshold, storeVars,
                                      RecommendCache>>
             ELSE IF update.Type = "config-update"
             THEN IF Failed(err)
                  THEN /\ processed' = Processed(update, err)
                       /\ UNCHANGED <<configVars, storeVars, RecommendCache>>
                  ELSE /\ \E threshold \in SyncedThresholds : alertThreshold' = threshold
                       /\ processed' = Processed(update, err)
                       /\ UNCHANGED <<whitelist, storedBlocklists, storeVars, RecommendCache>>
             ELSE /\ processed' = Processed(update, err)
                  /\ UNCHANGED <<configVars, storeVars, RecommendCache>>
    /\ UNCHANGED <<received, ingress, supVars, deliverVars, keyVars, wsVars, wlVars, auxVars,
                   taskVars, queueVars, lastCall>>

InitUpdates ==
    /\ InitCommon
    /\ whitelist = {}
    /\ alertThreshold = 50
    /\ InitStore([ip \in IPs |-> IF ip = PublicIP THEN BootstrapRow ELSE NoRow])

\* The read loop, a worker and the evaluator that fills the caches.
NextUpdates ==
    \/ IngressReadAny
    \/ IngressMalformed
    \/ IngressSelect
    \/ ProcessUpdate
    \/ \E ip \in IPs : EvaluateAndAct(ip)

SpecUpdates == InitUpdates /\ [][NextUpdates]_vars

\* What the updates act on: the store and its cache, the dedup cache, the
\* blocklists, the whitelist, the configuration and the subsystems.
sensorState ==
    <<scoreDB, ScoreCache, RecommendCache, storedBlocklists, whitelist, alertThreshold,
      cfgSub, controllers, adapters>>

PurgeCaches ==
    LET entry(ip) == [key |-> generateCacheKey(ip, <<BlockDecision(60, 40, "BL1")>>), n |-> 1]
    IN  {[i \in 1..Len(ips) |-> entry(ips[i])] :
           ips \in {q \in UNION {[1..n -> KeyIPs] : n \in 0..MaxKeys} :
                      \A i, j \in DOMAIN q : q[i] = q[j] => i = j}}

\* ProcessUpdate, score-update: removeRecommendCacheEntriesByIP(s.Ip) on
\* the cache handed over.
CallRemoveByIP ==
    /\ Len(purge.calls) < MaxPurges
    /\ \E ip \in KeyIPs :
         LET after == removeRecommendCacheEntriesByIP(purge.cache, ip)
         IN  purge' = [cache |-> after,
                       calls |-> Append(purge.calls,
                                        [ip |-> ip, before |-> purge.cache, after |-> after])]
    /\ UNCHANGED <<pushVars, supVars, deliverVars, keyVars, wsVars, ingressVars, wlVars, boot, dbPool,
                   configVars, storeVars, RecommendCache, taskVars, queueVars, lastCall>>

InitPurge ==
    /\ InitState
    /\ Booted
    /\ keyArg = <<>>
    /\ updateChan = <<>>
    /\ purge \in {[cache |-> cache, calls |-> <<>>] : cache \in PurgeCaches}
    /\ whitelist = {}
    /\ alertThreshold = 50
    /\ InitStore([ip \in IPs |-> NoRow])

NextPurge == CallRemoveByIP

SpecPurge == InitPurge /\ [][NextPurge]_vars

\* C32: after the purge for an address the cache holds no key of that
\* address, and the keys of every other address are as they were.
PurgeKeepsOtherAddresses ==
    \A i \in DOMAIN purge.calls :
       LET call == purge.calls[i]
       IN  /\ \A j \in DOMAIN call.after : call.after[j].key.ip # call.ip
           /\ call.after = SelectSeq(call.before, LAMBDA e : e.key.ip # call.ip)

\* ------------------------------------------------ the blocklists re-pulled

\* A worker takes a blocklist-update off the update channel.
WorkerTakeBlocklistUpdate ==
    /\ nUpdates < MaxUpdates
    /\ \E w \in 1..numWorkers :
         /\ workers[w].pc = "idle"
         /\ \A v \in 1..numWorkers : workers[v].pc = "idle" => w <= v
         /\ workers' = [workers EXCEPT ![w] = [pc |-> "blocklist.Sync"]]
    /\ nUpdates' = nUpdates + 1
    /\ UNCHANGED <<extVars, configVars, storeVars, RecommendCache, evals, nIngest,
                   queueVars, lastCall>>

\* ProcessUpdate, blocklist-update: blocklist.Sync(cfg).  A failed request
\* or decode returns the worker to the channel; a decoded response replaces
\* storedBlocklists under blocklistMutex.
WorkerSyncBlocklists(w) ==
    /\ workers[w].pc = "blocklist.Sync"
    /\ \E err \in {"nil", "error"} :
         IF Failed(err)
         THEN /\ workers' = [workers EXCEPT ![w] = IdleWorker]
              /\ UNCHANGED <<storedBlocklists, processed>>
         ELSE \E blocklists \in BlocklistSnapshots :
                /\ storedBlocklists' = blocklists
                /\ workers' = [workers EXCEPT ![w] = [pc |-> "InitRecommendCache"]]
                /\ processed' = [Type |-> "blocklist-update", n |-> processed.n,
                                 failures |-> processed.failures, pulled |-> blocklists]
    /\ UNCHANGED <<pushVars, supVars, deliverVars, keyVars, wsVars, ingress, wlVars, auxVars,
                   whitelist, alertThreshold, storeVars, RecommendCache, evals, nIngest,
                   nUpdates, queueVars, lastCall>>

ResetCache_keep(cache) == cache

\* InitRecommendCache: RecommendCache = a new, empty LRU.
ResetCache(cache) == <<>>

\* ProcessUpdate, blocklist-update: InitRecommendCache(...); the update is
\* processed.
WorkerInitRecommendCache(w) ==
    /\ workers[w].pc = "InitRecommendCache"
    /\ RecommendCache' = ResetCache(RecommendCache)
    /\ workers' = [workers EXCEPT ![w] = IdleWorker]
    /\ processed' = [processed EXCEPT !.n = @ + 1]
    /\ UNCHANGED <<pushVars, supVars, deliverVars, keyVars, wsVars, ingress, wlVars, auxVars,
                   configVars, storeVars, evals, nIngest, nUpdates, queueVars, lastCall>>

InitRefresh ==
    /\ InitCommon
    /\ whitelist = {}
    /\ alertThreshold = 70
    /\ InitStore([ip \in IPs |-> IF ip = PublicIP THEN BootstrapRow ELSE NoRow])

\* The update workers on blocklist-updates next to the evaluator.
NextRefresh ==
    \/ WorkerTakeBlocklistUpdate
    \/ \E w \in 1..numWorkers : WorkerSyncBlocklists(w)
    \/ \E w \in 1..numWorkers : WorkerInitRecommendCache(w)
    \/ \E ip \in IPs : EvaluateAndAct(ip)

SpecRefresh == InitRefresh /\ [][NextRefresh]_vars

\* C31: once a blocklist-update has been processed, storedBlocklists is
\* the snapshot of the latest re-pull, whole, and the dedup cache is empty;
\* an evaluation that finds the cache empty submits its blocking decisions,
\* reported before or not.
BlocklistUpdateResets ==
    /\ [](processed.Type = "blocklist-update" => storedBlocklists = processed.pulled)
    /\ [][ processed'.n > processed.n => RecommendCache' = <<>> ]_vars
    /\ [][ (lastAct' # lastAct /\ RecommendCache = <<>> /\ lastAct'.blocks > 0)
             => /\ lastAct'.recommends = 1
                /\ Len(outbox') = Len(outbox) + 1 ]_vars

\* The same address was reported twice with the same return, once before
\* and once after a blocklist-update was processed; the second report left its
\* key in the new cache.
ReportedAgainAfterReset ==
    /\ processed.Type = "blocklist-update"
    /\ processed.n >= 1
    /\ Len(outbox) = 2
    /\ outbox[1].ip = outbox[2].ip
    /\ Len(RecommendCache) = 1
    /\ RecommendCache[1].n = 1
    /\ storedBlocklists = BlocklistsResponse

\* ------------------------------------------------------------- startup

\* What main leaves alone from InitializeSystem until its goroutines start.
notBoot == <<pushVars, deliverVars, keyVars, wsVars, ingressVars, wlVars, purge, dbPool, alertThreshold,
             ScoreCache, days, RecommendCache, taskVars, queueVars, lastCall, rootCancelled,
             cfgSub, controllers, adapters, nSyncs, tasks, mainPc, wg>>

\* InitializeSystem and main call SyncSensorConfig: a failed GET /sync is
\* fatal in InitializeSystem and logged in main; an answer is compared by
\* the steps of SyncSensorConfig.
BootBeginSync ==
    /\ boot.pc \in {"SyncSensorConfig", "main.SyncSensorConfig"}
    /\ \E err \in {"nil", "error"} :
         IF Failed(err)
         THEN /\ boot' = [boot EXCEPT !.pc = IF boot.pc = "SyncSensorConfig"
                                              THEN "Fatal" ELSE "running"]
              /\ UNCHANGED syncs
         ELSE /\ \E response \in SyncAnswers : syncs' = BeginSync("main", response)
              /\ boot' = [boot EXCEPT !.pc = IF boot.pc = "SyncSensorConfig"
                                              THEN "in SyncSensorConfig"
                                              ELSE "in main.SyncSensorConfig"]
    /\ UNCHANGED <<notBoot, whitelist, storedBlocklists, scoreDB, written>>

\* SyncSensorConfig has returned nil.
BootSyncReturns ==
    /\ boot.pc \in {"in SyncSensorConfig", "in main.SyncSensorConfig"}
    /\ syncs["main"].pc = "idle"
    /\ boot' = [boot EXCEPT !.pc = IF boot.pc = "in SyncSensorConfig"
                                    THEN BootSteps[1] ELSE "running"]
    /\ UNCHANGED <<notBoot, syncs, whitelist, storedBlocklists, scoreDB, written>>

\* The step of InitializeSystem after BootSteps[i].
AfterBootStep(i) == IF i < Len(BootSteps) THEN BootSteps[i + 1] ELSE "main.SyncSensorConfig"

\* One of arbiter.Sync, blocklist.Sync, wm.Sync, sqlite.InitCache and
\* InitRecommendCache in InitializeSystem: an error is fatal.
BootStep(i) ==
    /\ boot.pc = BootSteps[i]
    /\ \E err \in {"nil", "error"} :
         IF Failed(err)
         THEN /\ boot' = [boot EXCEPT !.pc = "Fatal"]
              /\ UNCHANGED <<whitelist, storedBlocklists, scoreDB, written>>
         ELSE /\ boot' = [pc |-> AfterBootStep(i), done |-> boot.done \cup {BootSteps[i]}]
              /\ IF BootSteps[i] = "arbiter.Sync"
                 THEN \E records \in SyncResponses :
                        /\ scoreDB' = BulkUpsertIpScores(scoreDB, records)
                        /\ written' = WrittenAfter(records, "sync")
                 ELSE UNCHANGED <<scoreDB, written>>
              /\ IF BootSteps[i] = "blocklist.Sync"
                 THEN \E blocklists \in BlocklistSnapshots : storedBlocklists' = blocklists
                 ELSE UNCHANGED storedBlocklists
              /\ IF BootSteps[i] = "wm.Sync"
                 THEN \E cidrs \in WhitelistResponses : whitelist' = NewRanger(cidrs)
                 ELSE UNCHANGED whitelist
    /\ UNCHANGED <<notBoot, syncs>>

\* The process as main enters InitializeSystem: config.Load() leaves
\* SniffTraffic and RunSyslog false; nothing pulled, no cache made.
InitBoot ==
    /\ InitState
    /\ boot = [pc |-> "SyncSensorConfig", done |-> {}]
    /\ storedBlocklists = <<>>
    /\ keyArg = <<>>
    /\ purge = NoPurge
    /\ updateChan = <<>>
    /\ whitelist = {}
    /\ alertThreshold = 0
    /\ InitStore([ip \in IPs |-> NoRow])

\* main up to the start of its goroutines, the steps of SyncSensorConfig
\* and the syslog servers it starts.
NextBoot ==
    \/ BootBeginSync
    \/ BootSyncReturns
    \/ \E i \in DOMAIN BootSteps : BootStep(i)
    \/ \E c \in SyncCallers : SyncCompareSniff(c)
    \/ \E c \in SyncCallers : SyncCompareSyslog(c)
    \/ \E c \in SyncCallers : SyncWriteSniff(c)
    \/ \E c \in SyncCallers : SyncWriteSyslog(c)
    \/ \E c \in SyncCallers : ReloadTraffic(c)
    \/ \E c \in SyncCallers : ReloadSyslog(c)
    \/ \E c \in SyncCallers : SyncThreshold(c)
    \/ \E a \in DOMAIN adapters : HandlerReceive(a)
    \/ \E a \in DOMAIN adapters : HandlerSpawn(a)

SpecBoot == InitBoot /\ [][NextBoot]_vars

\* C34: while the blocklists, the whitelist, the score cache or the dedup
\* cache is not initialised yet, no ingest adapter has been started and no
\* evaluation runs.
NoAdapterBeforeBootstrap ==
    {"blocklist.Sync", "wm.Sync", "InitCache", "InitRecommendCache"} \subseteq boot.done
        \/ (adapters = <<>> /\ \A t \in 1..MaxEvals : evals[t].pc = "idle")

\* ------------------------------------------------- the update subscription

\* What no step of the subscription touches.
notWs == <<pushVars, supVars, deliverVars, keyVars, ingressVars, wlVars, auxVars, configVars, storeVars,
           RecommendCache, taskVars, queueVars, lastCall>>

NextBackoff_uncapped(currentBackoff) == currentBackoff * backoffMultiplier

\* "Increase backoff exponentially up to max".
NextBackoff(currentBackoff) == Min(currentBackoff * backoffMultiplier, maxBackoff)

ConnIsNil_never(conn) == FALSE

\* updater.GetConn() == nil
ConnIsNil(conn) == conn = 0

\* A read loop that took a nil connection at its start: it only waits for
\* the next connection to end itself, and touches nothing.
Idle(loop) == loop.pc \in {"none", "exited"} \/ (loop.pc = "outer" /\ loop.conn = 0)

\* A connection nothing refers to any more: not the current one, the read
\* loop started with it gone or idle, in the hands of no other read loop and
\* of no keepalive goroutine.
Forgotten(c) ==
    /\ c # uConn
    /\ Idle(readLoops[c])
    /\ \A d \in 1..MaxConns :
         readLoops[d].pc \in {"outer", "inner", "read"} => readLoops[d].conn # c
    /\ \A d \in 1..MaxConns :
         pingers[d].pc = "failed" => pingers[d].conn # c

FreeConns == {c \in 1..MaxConns : conns[c] = "none" \/ Forgotten(c)}

\* time.Sleep(currentBackoff), then the backoff raised for the next time.
\* `slept` remembers the last wait since the start or the last connection.
AfterSleep(pc) ==
    [pc |-> pc, currentBackoff |-> NextBackoff(client.currentBackoff),
     slept |-> client.currentBackoff]

\* dialer.Dial fails: the client sleeps currentBackoff, raises it and dials
\* again.
WsDialFailed ==
    /\ client.pc = "Dial"
    /\ ~reachable
    /\ client' = AfterSleep("Dial")
    /\ UNCHANGED <<uConn, conns, readLoops, pingers, nLosses, reachable, listeners, notWs>>

\* dialer.Dial succeeds: the backoff is reset, SetConn(conn), a keepalive
\* goroutine and StartListening with its channel, its workers and its
\* read loop are started.  The keepalive goroutines never end, and neither
\* do the workers, whose channel is never closed; those of an earlier dial
\* that used the same slot stand for both.
WsDialConnected ==
    /\ client.pc = "Dial"
    /\ reachable
    /\ FreeConns # {}
    /\ LET c == CHOOSE f \in FreeConns : \A g \in FreeConns : f <= g
       IN  /\ conns' = [conns EXCEPT ![c] = "open"]
           /\ uConn' = c
           /\ readLoops' = [readLoops EXCEPT ![c] = [pc |-> "start"]]
           /\ pingers' = IF pingers[c].pc = "none"
                          THEN [pingers EXCEPT ![c] = [pc |-> "tick"]]
                          ELSE pingers
           /\ listeners' = listeners \cup {c}
    /\ client' = [pc |-> "Poll", currentBackoff |-> initialBackoff, slept |-> 0]
    /\ UNCHANGED <<nLosses, reachable, notWs>>

\* "Wait until disconnected": the poll every 5 s finds the connection nil.
WsPollNil ==
    /\ client.pc = "Poll"
    /\ ConnIsNil(uConn)
    /\ client' = [client EXCEPT !.pc = "Retry"]
    /\ UNCHANGED <<uConn, conns, readLoops, pingers, nLosses, reachable, listeners, notWs>>

\* "WebSocket disconnected, retrying": the client sleeps currentBackoff,
\* raises it and dials again.
WsRetry ==
    /\ client.pc = "Retry"
    /\ client' = AfterSleep("Dial")
    /\ UNCHANGED <<uConn, conns, readLoops, pingers, nLosses, reachable, listeners, notWs>>

\* The read loop goroutine starts: conn := u.GetConn().
ReadLoopStart(c) ==
    /\ readLoops[c].pc = "start"
    /\ readLoops' = [readLoops EXCEPT ![c] = [pc |-> "outer", conn |-> uConn]]
    /\ UNCHANGED <<uConn, client, conns, pingers, nLosses, reachable, listeners, notWs>>

\* The outer loop: a replaced connection ends the goroutine, a nil one is
\* waited for, otherwise the deadlines are set and the inner loop entered.
ReadLoopOuter(c) ==
    /\ readLoops[c].pc = "outer"
    /\ uConn # readLoops[c].conn \/ readLoops[c].conn # 0
    /\ readLoops' = [readLoops EXCEPT ![c].pc =
                       IF uConn # readLoops[c].conn THEN "exited" ELSE "inner"]
    /\ UNCHANGED <<uConn, client, conns, pingers, nLosses, reachable, listeners, notWs>>

\* The inner loop: a replaced connection breaks it, otherwise
\* conn.ReadMessage() is called.
ReadLoopInner(c) ==
    /\ readLoops[c].pc = "inner"
    /\ readLoops' = [readLoops EXCEPT ![c].pc =
                       IF uConn # readLoops[c].conn THEN "outer" ELSE "read"]
    /\ UNCHANGED <<uConn, client, conns, pingers, nLosses, reachable, listeners, notWs>>

\* conn.ReadMessage() returns a frame that json.Unmarshal rejects: logged,
\* `continue`.
ReadLoopMalformed(c) ==
    /\ readLoops[c].pc = "read"
    /\ conns[readLoops[c].conn] = "open"
    /\ readLoops' = [readLoops EXCEPT ![c].pc = "inner"]
    /\ UNCHANGED <<uConn, client, conns, pingers, nLosses, reachable, listeners, notWs>>

\* conn.ReadMessage() returns an error: the connection is lost or closed,
\* or its read deadline passes because the pings go to another connection.
\* u.SetConn(nil), conn.Close(), break.
ReadLoopError(c) ==
    /\ readLoops[c].pc = "read"
    /\ conns[readLoops[c].conn] # "open" \/ readLoops[c].conn # uConn
    /\ uConn' = 0
    /\ conns' = [conns EXCEPT ![readLoops[c].conn] = "closed"]
    /\ readLoops' = [readLoops EXCEPT ![c].pc = "outer"]
    /\ UNCHANGED <<client, pingers, nLosses, reachable, listeners, notWs>>

\* PingKeepalive, a tick: conn := u.GetConn() and the ping cannot be
\* written.
PingFailed(p) ==
    /\ pingers[p].pc = "tick"
    /\ uConn # 0
    /\ conns[uConn] # "open"
    /\ pingers' = [pingers EXCEPT ![p] = [pc |-> "failed", conn |-> uConn]]
    /\ UNCHANGED <<uConn, client, conns, readLoops, nLosses, reachable, listeners, notWs>>

\* PingKeepalive after the failed ping: u.SetConn(nil), conn.Close().
PingCloses(p) ==
    /\ pingers[p].pc = "failed"
    /\ uConn' = 0
    /\ conns' = [conns EXCEPT ![pingers[p].conn] = "closed"]
    /\ pingers' = [pingers EXCEPT ![p] = [pc |-> "tick"]]
    /\ UNCHANGED <<client, readLoops, nLosses, reachable, listeners, notWs>>

\* The network drops a connection, and the arbiter may be out of reach
\* from then on.
ConnLost(c) ==
    /\ nLosses < MaxLosses
    /\ conns[c] = "open"
    /\ conns' = [conns EXCEPT ![c] = "lost"]
    /\ nLosses' = nLosses + 1
    /\ reachable' \in BOOLEAN
    /\ UNCHANGED <<uConn, client, readLoops, pingers, listeners, notWs>>

\* The arbiter is within reach again.
ArbiterReachable ==
    /\ ~reachable
    /\ reachable' = TRUE
    /\ UNCHANGED <<uConn, client, conns, readLoops, pingers, nLosses, listeners, notWs>>

InitWs ==
    /\ InitCommon
    /\ whitelist = {}
    /\ alertThreshold = 50
    /\ InitStore([ip \in IPs |-> NoRow])

ClientStep == WsDialFailed \/ WsDialConnected \/ WsPollNil \/ WsRetry

ReadLoopStep(c) ==
    \/ ReadLoopStart(c)
    \/ ReadLoopOuter(c)
    \/ ReadLoopInner(c)
    \/ ReadLoopError(c)

PingerStep(p) == PingFailed(p) \/ PingCloses(p)

NextWs ==
    \/ ClientStep
    \/ \E c \in 1..MaxConns : ReadLoopStep(c)
    \/ \E c \in 1..MaxConns : ReadLoopMalformed(c)
    \/ \E p \in 1..MaxConns : PingerStep(p)
    \/ \E c \in 1..MaxConns : ConnLost(c)
    \/ ArbiterReachable

\* Every goroutine runs, a read that must fail does fail, and the arbiter
\* comes within reach again.
FairWs ==
    /\ WF_vars(ClientStep)
    /\ \A c \in 1..MaxConns : WF_vars(ReadLoopStep(c))
    /\ \A p \in 1..MaxConns : WF_vars(PingerStep(p))
    /\ WF_vars(ArbiterReachable)

SpecWs == InitWs /\ [][NextWs]_vars /\ FairWs

\* The client has a connection and a read loop is consuming it.
Consuming ==
    /\ uConn # 0
    /\ client.pc = "Poll"
    /\ \E c \in 1..MaxConns :
         readLoops[c].pc \in {"inner", "read"} /\ readLoops[c].conn = uConn

\* The network has dropped the client's connection.
ConnectionLost == uConn # 0 /\ conns[uConn] = "lost"

\* C23: whenever the connection is lost (read error, read timeout or failed
\* ping), the client gets back to dialing and, the arbiter being within
\* reach again, to a connection with a read loop consuming it.
LostConnectionIsReplaced ==
    /\ ConnectionLost ~> client.pc = "Dial"
    /\ ConnectionLost ~> (Consuming /\ conns[uConn] = "open")

\* The client is consuming a connection after the network dropped one.
ConsumingAfterLoss == nLosses >= 1 /\ Consuming /\ conns[uConn] = "open"

\* C24: every wait before a re-dial is 1 s when it is the first since the
\* start or since the last successful connection, otherwise twice the wait
\* before it, and never more than 300 s.
BackoffDoubles ==
    [][ (client.pc \in {"Dial", "Retry"} /\ client'.pc = "Dial" /\ client' # client)
            => /\ client'.slept <= 300
               /\ client.slept = 0 => client'.slept = 1
               /\ client.slept # 0 => client'.slept = Min(2 * client.slept, 300) ]_vars

\* The waits have reached five minutes, and they have restarted after a
\* connection.
BackoffAtCap == client.slept = maxBackoff /\ nLosses >= 1

\* C35: a read loop after a read error, and a keepalive goroutine after a
\* failed ping, set the client's connection to nil only while it still is
\* the connection the failure was seen on: a newer connection that is open
\* is never discarded.
FailureClearsOwnConnection ==
    [][ /\ \A c \in 1..MaxConns :
             (readLoops[c].pc = "read" /\ readLoops'[c].pc = "outer")
                 => ~(uConn # 0 /\ uConn # readLoops[c].conn /\ conns[uConn] = "open")
        /\ \A p \in 1..MaxConns :
             (pingers[p].pc = "failed" /\ pingers'[p].pc = "tick")
                 => ~(uConn # 0 /\ uConn # pingers[p].conn /\ conns[uConn] = "open") ]_vars

\* The client is between two connections.
ClientDisconnected == uConn = 0 /\ client.pc \in {"Retry", "Dial"}

\* The goroutines alive: read loops, keepalive loops, dispatch workers.
LiveReadLoops == {c \in 1..MaxConns : readLoops[c].pc \notin {"none", "exited"}}
LivePingers == {p \in 1..MaxConns : pingers[p].pc # "none"}
LiveWorkers == numWorkers * Cardinality(listeners)

\* C36: at most one read loop, one keepalive loop and four dispatch
\* workers are alive, and none of a previous connection once the client is
\* between two connections.
OneLoopSetAlive ==
    /\ Cardinality(LiveReadLoops) <= 1
    /\ Cardinality(LivePingers) <= 1
    /\ LiveWorkers <= numWorkers
    /\ ClientDisconnected => (LiveReadLoops = {} /\ LivePingers = {} /\ LiveWorkers = 0)

\* Where the item `id` stands in a queue.
Position(items, id) == CHOOSE i \in DOMAIN items : items[i].id = id

\* C37: however calls of Add and drain passes follow one another, an item
\* added stays queued until it is accepted or has failed ten
\* re-submissions; a pass leaves an item that is not yet due as it is,
\* keeps an item added between two passes, holds no item twice, and keeps
\* the items it keeps in the order they had.
QueueKeepsItems ==
    /\ [](\A id \in ItemIds :
            /\ hist[id].state = "queued" => id \in QueuedIds
            /\ hist[id].state = "dropped" => hist[id].tries = maxAttempts
            /\ id < nextId => hist[id].state # "none")
    /\ [](\A i, j \in DOMAIN rq_items : rq_items[i].id = rq_items[j].id => i = j)
    /\ [][ \A i \in DOMAIN rq_items :
             LET item == rq_items[i]
             IN  /\ item.id \notin QueuedIds'
                      => \/ hist'[item.id].state = "accepted"
                         \/ item.Attempts + 1 = maxAttempts /\ hist'[item.id].state = "dropped"
                 /\ (item.wait > 0 /\ hist' # hist /\ nextId' = nextId)
                      => item \in {rq_items'[k] : k \in DOMAIN rq_items'}
                 /\ \A j \in DOMAIN rq_items :
                      (i < j /\ {item.id, rq_items[j].id} \subseteq QueuedIds')
                         => Position(rq_items', item.id) < Position(rq_items', rq_items[j].id)
         ]_vars

\* A pass re-submitted the first item for the second time and kept it ahead
\* of an item added after the first pass, which is not yet due.
PassKeptItemAddedSince ==
    /\ Len(rq_items) = 2
    /\ rq_items[1].Attempts >= 2
    /\ rq_items[2].Attempts = 0 /\ rq_items[2].wait > 0
    /\ hist[rq_items[2].id].tries = 0

\* C38: the adapter a reload stops has returned, its listener or capture
\* handle released, before the adapter the reload starts runs: no subsystem
\* has two adapters running at once.
OneInstanceAlive ==
    \A kind \in Subsystems :
        Cardinality({a \in RunningAdapters : adapters[a].kind = kind}) <= 1

\* ----------------------------------------------- the body of a POST

\* json.Marshal of the alert payload, as the chunks the model tells apart.
Marshal(ipType, ip) == <<"{", ipType, ip, "}">>

\* bytes.NewReader(body): the bytes and the position read so far.
NewReader(body) == [s |-> body, i |-> 0]

\* http.NewRequest(method, url, opts.Body) with a *bytes.Reader: the
\* request's ContentLength is the reader's unread length and its body the
\* unread bytes, NoBody when none is left.
RequestBody(reader) == SubSeq(reader.s, reader.i + 1, Len(reader.s))

\* The transport read n bytes of the request's body, or what was left.
ReadBody(reader, n) == [reader EXCEPT !.i = Min(Len(reader.s), @ + n)]

\* The bytes the transport reads of a request's body before the attempt
\* ends: all of them, or fewer when the attempt fails or is answered
\* before the body is written.
BodyReads(body) == [0..(maxRetries - 1) -> 0..Len(body)]

\* APIClient.DoRequest's attempt loop with opts.Body: the body each attempt
\* carries.  reads[attempt] is what the transport read of it.
RECURSIVE DoRequestBodies(_, _, _, _, _)
DoRequestBodies(plan, attempt, reader, reads, sent) ==
    LET status == Answer(plan, attempt)
        bodies == Append(sent, RequestBody(reader))
        retry == DoRequestBodies(plan, attempt + 1, ReadBody(reader, reads[attempt]),
                                 reads, bodies)
    IN  IF status = TransportError
        THEN IF attempt < maxRetries THEN retry ELSE bodies
        ELSE IF status = StatusOK
        THEN bodies
        ELSE IF status >= 500 /\ attempt < maxRetries
        THEN retry
        ELSE bodies

\* A call of sendAlertInternal(ipType, ip, relatedIp, source, cfg): the
\* payload marshalled, POST /alert through DoRequest, the checks on the
\* response.  One call is followed from its start to its return.
PostAlert ==
    /\ lastCall = NoCall
    /\ \E ipType \in {"source", "destination"}, ip \in IPs, plan \in ResponsePlans :
         LET body == Marshal(ipType, ip)
             r == sendAlertInternal(plan)
         IN  \E reads \in BodyReads(body) :
                lastCall' = [fn |-> "sendAlertInternal", body |-> body,
                             bodies |-> DoRequestBodies(plan, 0, NewReader(body), reads, <<>>),
                             answers |-> r.answers, err |-> r.err]
    /\ UNCHANGED <<extVars, configVars, storeVars, RecommendCache, taskVars, queueVars>>

NextPost == PostAlert

SpecPost == InitSubmit /\ [][NextPost]_vars

\* C39: every attempt of a POST made through DoRequest carries the body
\* the first attempt carried.
RetryCarriesSameBody ==
    lastCall.fn = "sendAlertInternal"
        => /\ Len(lastCall.bodies) = Len(lastCall.answers)
           /\ \A k \in DOMAIN lastCall.bodies : lastCall.bodies[k] = lastCall.body

\* ------------------------------------------- the store's connection

notPool == <<pushVars, supVars, deliverVars, keyVars, wsVars, ingressVars, wlVars, purge, boot,
             configVars, ScoreCache, written, days, RecommendCache, taskVars, queueVars,
             lastCall>>

\* db.SetMaxOpenConns(1): the pool's one connection, held by call `holder`
\* or idle (0).  A call that needs the connection waits until it is idle.
ConnIdle == dbPool.holder = 0

\* The call k moves on; the connection goes to `holder`.
PoolAfter(k, pc, holder) == [dbPool EXCEPT !.calls[k].pc = pc, !.holder = holder]

\* tx.Rollback() and tx.Commit() hand the connection back to the pool,
\* whatever the driver answers.
Released == 0

\* The record a call of the model writes.
StoreRecord(ip) == [IP |-> ip, NFGScore |-> 80, LastUpdated |-> 0]

\* A goroutine calls UpsertIpScore, upsertBatch or Lookup.
StoreCallBegins(k) ==
    /\ dbPool.calls[k].pc = "none"
    /\ \A j \in 1..(k - 1) : dbPool.calls[j].pc # "none"
    /\ \E fn \in {"UpsertIpScore", "upsertBatch", "Lookup"}, ip \in IPs :
         dbPool' = [dbPool EXCEPT !.calls[k] =
                      [fn |-> fn, pc |-> IF fn = "Lookup" THEN "QueryRow" ELSE "Begin",
                       ip |-> ip]]
    /\ UNCHANGED <<notPool, scoreDB>>

\* `tx, err := db.Begin()` of either upsert: the call has the connection,
\* or returns the error.
TxBegin(k) ==
    /\ dbPool.calls[k].pc = "Begin"
    /\ ConnIdle
    /\ \E ok \in BOOLEAN :
         dbPool' = IF ok
                   THEN PoolAfter(k, IF dbPool.calls[k].fn = "UpsertIpScore"
                                     THEN "Prepare" ELSE "Exec", k)
                   ELSE PoolAfter(k, "returned", dbPool.holder)
    /\ UNCHANGED <<notPool, scoreDB>>

\* UpsertIpScore, `stmt, err := tx.Prepare(...)`: on an error `return err`.
UpsertPrepare(k) ==
    /\ dbPool.calls[k].fn = "UpsertIpScore"
    /\ dbPool.calls[k].pc = "Prepare"
    /\ \E ok \in BOOLEAN :
         dbPool' = PoolAfter(k, IF ok THEN "Exec" ELSE "returned", dbPool.holder)
    /\ UNCHANGED <<notPool, scoreDB>>

\* UpsertIpScore, `stmt.Exec(...)`: on an error `_ = tx.Rollback()` and
\* `return err`.
UpsertExec(k) ==
    /\ dbPool.calls[k].fn = "UpsertIpScore"
    /\ dbPool.calls[k].pc = "Exec"
    /\ \E ok \in BOOLEAN :
         dbPool' = IF ok
                   THEN PoolAfter(k, "Commit", dbPool.holder)
                   ELSE PoolAfter(k, "returned", Released)
    /\ UNCHANGED <<notPool, scoreDB>>

\* UpsertIpScore, `err = tx.Commit()` and the return.
UpsertCommit(k) ==
    /\ dbPool.calls[k].fn = "UpsertIpScore"
    /\ dbPool.calls[k].pc = "Commit"
    /\ \E ok \in BOOLEAN :
         scoreDB' = IF ok
                    THEN [scoreDB EXCEPT ![dbPool.calls[k].ip] =
                                            RowOf(StoreRecord(dbPool.calls[k].ip))]
                    ELSE scoreDB
    /\ dbPool' = PoolAfter(k, "returned", Released)
    /\ UNCHANGED notPool

\* upsertBatch, `tx.Exec(query, args...)`: on an error the return, and
\* with it the deferred tx.Rollback().
BatchExec(k) ==
    /\ dbPool.calls[k].fn = "upsertBatch"
    /\ dbPool.calls[k].pc = "Exec"
    /\ \E ok \in BOOLEAN :
         dbPool' = IF ok
                   THEN PoolAfter(k, "Commit", dbPool.holder)
                   ELSE PoolAfter(k, "returned", Released)
    /\ UNCHANGED <<notPool, scoreDB>>

\* upsertBatch, `tx.Commit()` and the return; the deferred tx.Rollback()
\* finds the transaction done.
BatchCommit(k) ==
    /\ dbPool.calls[k].fn = "upsertBatch"
    /\ dbPool.calls[k].pc = "Commit"
    /\ \E ok \in BOOLEAN :
         scoreDB' = IF ok
                    THEN BulkUpsertIpScores(scoreDB, <<StoreRecord(dbPool.calls[k].ip)>>)
                    ELSE scoreDB
    /\ dbPool' = PoolAfter(k, "returned", Released)
    /\ UNCHANGED notPool

\* Lookup, `db.QueryRow(query, ip)` and `row.Scan(...)`: the connection is
\* taken once it is idle and handed back by Scan.
LookupQueryRow(k) ==
    /\ dbPool.calls[k].fn = "Lookup"
    /\ dbPool.calls[k].pc = "QueryRow"
    /\ ConnIdle
    /\ dbPool' = PoolAfter(k, "returned", Released)
    /\ UNCHANGED <<notPool, scoreDB>>

InitPool ==
    /\ InitCommon
    /\ whitelist = {}
    /\ alertThreshold = 50
    /\ InitStore([ip \in IPs |-> NoRow])

NextPool ==
    \/ \E k \in 1..MaxStoreCalls : StoreCallBegins(k)
    \/ \E k \in 1..MaxStoreCalls : TxBegin(k)
    \/ \E k \in 1..MaxStoreCalls : UpsertPrepare(k)
    \/ \E k \in 1..MaxStoreCalls : UpsertExec(k)
    \/ \E k \in 1..MaxStoreCalls : UpsertCommit(k)
    \/ \E k \in 1..MaxStoreCalls : BatchExec(k)
    \/ \E k \in 1..MaxStoreCalls : BatchCommit(k)
    \/ \E k \in 1..MaxStoreCalls : LookupQueryRow(k)

SpecPool == InitPool /\ [][NextPool]_vars

\* The calls waiting for the pool's connection.
WaitingForConn ==
    {k \in 1..MaxStoreCalls : dbPool.calls[k].pc \in {"Begin", "QueryRow"}}

\* C40: a call of UpsertIpScore or upsertBatch that has returned, whether
\* its prepare, exec or commit failed or not, has ended its transaction and
\* no longer holds the store's one connection, so that no later call of the
\* store waits for a connection that is never handed back.
ReturnedCallReleasedConn ==
    \A k \in 1..MaxStoreCalls :
        dbPool.calls[k].pc = "returned"
            => /\ dbPool.holder # k
               /\ WaitingForConn # {} => (ConnIdle \/ dbPool.calls[dbPool.holder].pc # "returned")

====
